---- MODULE Spec2Model ----
(***************************************************************************)
(* Model of the Ember mug BLE client: BluetoothManager                     *)
(* (src/src/lib/bluetooth.ts, lines 1-722) and the constants of            *)
(* src/apps/cli/src/lib/types.ts.                                          *)
(*                                                                         *)
(* The manager is single threaded: every action below is one run of the    *)
(* JavaScript event loop (one adapter callback, timer callback or public   *)
(* call together with all the synchronous code and promise continuations   *)
(* it triggers, up to the next adapter request or timer).                  *)
(*                                                                         *)
(* Temperatures held in MugState are numbers of 0.01 degree steps (the     *)
(* code stores raw * 0.01); requested temperatures are numbers of 0.001    *)
(* degree steps so that Math.round(clamped * 100) is not the identity.     *)
(***************************************************************************)
EXTENDS Integers, Sequences, FiniteSets, TLC

VARIABLES
    nobleState,       \* adapter power state (noble.state)
    scanActive,       \* the adapter is scanning
    scanCall,         \* position of the startScanning() promise
    peripheral,       \* BluetoothManager.peripheral: "null" or a device id
    characteristics,  \* BluetoothManager.characteristics: logical names mapped
    isConnected,      \* BluetoothManager.isConnected
    pollInterval,     \* BluetoothManager.pollInterval is not null
    timers,           \* number of live setInterval poll timers
    state,            \* BluetoothManager.state (MugState)
    disc,             \* the async discover handler: its position
    cwr,              \* the connectWithRetry() run
    att,              \* the connect() calls of the run, by attempt number
    reqs,             \* characteristic reads/writes in flight, oldest first
    linkUp,           \* the adapter holds a link to the peripheral
    discHandlers,     \* once("disconnect") listeners registered by connect()
    discCall,         \* position of the disconnect() promise
    repair,           \* position of the forgetAndRepair() call
    device,           \* values the peripheral stores, as bytes, and its mode
    calls,            \* public setter calls, by call slot
    codec,            \* the codec under test (specification SpecCodec)
    snap,             \* the object state.color refers to, and the snapshots
                      \* collaborators hold (specification SpecSnapshot)
    mock,             \* the MockBluetoothManager instance of mock mode
    op,               \* the operation the last step ran
    emitted           \* the events the last step emitted, in order

vars == << nobleState, scanActive, scanCall, peripheral, characteristics,
           isConnected, pollInterval, timers, state, disc, cwr, att, reqs,
           linkUp, discHandlers, discCall, repair, device, calls, codec, snap,
           mock, op, emitted >>

----------------------------------------------------------------------------
(* Program constants *)

MIN_TEMP_CELSIUS == 50
MAX_TEMP_CELSIUS == 63
maxRetries == 3
EmptyLiquid == 1
Celsius == 0
Fahrenheit == 1
UInt16Max == 65535

LiquidStateValues == {1, 2, 4, 5, 6}

\* EMBER_CHARACTERISTICS: the logical names the manager reads or writes
Chars == {"MUG_NAME", "CURRENT_TEMP", "TARGET_TEMP", "TEMP_UNIT", "BATTERY",
          "LIQUID_STATE", "DSK", "UDSK", "PUSH_EVENTS", "LED_COLOR"}

----------------------------------------------------------------------------
(* Bounds of the model *)

MaxQueue == 2        \* reads/writes in flight at once beyond a setup's own
MaxTimers == 2       \* live poll timers
MaxHandlers == 3     \* disconnect listeners registered at once

----------------------------------------------------------------------------
(* Codec: Buffer.writeUInt16LE / Buffer.readUInt16LE and the scaling *)

writeUInt16LE_BigEndian(value) == << (value \div 256) % 256, value % 256 >>

writeUInt16LE(value) == << value % 256, (value \div 256) % 256 >>

readUInt16LE(data) == data[1] + 256 * data[2]

clampTemp_NoUpper(temp) ==
    IF temp > MIN_TEMP_CELSIUS * 1000 THEN temp ELSE MIN_TEMP_CELSIUS * 1000

\* Math.max(MIN_TEMP_CELSIUS, Math.min(MAX_TEMP_CELSIUS, temp)), temp in 0.001
clampTemp(temp) ==
    LET lo == MIN_TEMP_CELSIUS * 1000
        hi == MAX_TEMP_CELSIUS * 1000
        m  == IF temp < hi THEN temp ELSE hi
    IN  IF m > lo THEN m ELSE lo

\* Math.round(clampedTemp * 100): thousandths to the nearest hundredth
roundHundredths(milli) == (milli + 5) \div 10

Abs(x) == IF x < 0 THEN -x ELSE x

----------------------------------------------------------------------------
(* Text: names are sequences of one-character strings; "NUL" is \0 *)

LowerOf == [c \in {"E", "M", "B", "R", "U", "G"} |->
              CASE c = "E" -> "e" [] c = "M" -> "m" [] c = "B" -> "b"
                [] c = "R" -> "r" [] c = "U" -> "u" [] c = "G" -> "g"]

toLowerCase_Identity(s) == s

\* String.prototype.toLowerCase
toLowerCase(s) ==
    [i \in 1..Len(s) |-> IF s[i] \in DOMAIN LowerOf THEN LowerOf[s[i]] ELSE s[i]]

\* String.prototype.includes
includes(s, sub) ==
    \E i \in 0..(Len(s) - Len(sub)) :
        \A j \in 1..Len(sub) : s[i + j] = sub[j]

RECURSIVE stripNul(_)
\* .replace(/\0/g, "")
stripNul(s) ==
    IF s = << >> THEN << >>
    ELSE IF Head(s) = "NUL" THEN stripNul(Tail(s))
         ELSE << Head(s) >> \o stripNul(Tail(s))

RECURSIVE trim(_)
\* String.prototype.trim (blanks only)
trim(s) ==
    IF s = << >> THEN << >>
    ELSE IF Head(s) = " " THEN trim(Tail(s))
    ELSE IF s[Len(s)] = " " THEN trim(SubSeq(s, 1, Len(s) - 1))
    ELSE s

EmberWord == << "e", "m", "b", "e", "r" >>
DefaultMugName == << "E", "m", "b", "e", "r", " ", "M", "u", "g" >>

\* peripheral.advertisement.localName of the device the adapter reports
AdvertisedName == << "E", "M", "B", "E", "R" >>

----------------------------------------------------------------------------
(* Object identity: the RGBColor objects that MugState objects refer to *)

MaxHeld == 2         \* snapshots collaborators keep at once

White == [r |-> 255, g |-> 255, b |-> 255, a |-> 255]

\* this.state as constructed, lines 34-44
InitialState ==
    [connected |-> FALSE, batteryLevel |-> 0, isCharging |-> FALSE,
     currentTemp |-> 0, targetTemp |-> 0, liquidState |-> EmptyLiquid,
     temperatureUnit |-> Celsius, color |-> White, mugName |-> << >>]

\* no snapshot kept in a slot
NoSnapshot == [ref |-> 0, st |-> InitialState]

\* the color object of the constructor (line 42) is object 1
NoSnapshots == [ref |-> 1, held |-> [i \in 1..MaxHeld |-> NoSnapshot]]

\* an object no kept snapshot refers to (objects nothing refers to are
\* collected, so their names are used again)
newObject(sn) ==
    CHOOSE n \in 1..(MaxHeld + 1) :
        /\ \A i \in 1..MaxHeld : sn.held[i].ref # n
        /\ \A m \in 1..(n - 1) : \E i \in 1..MaxHeld : sn.held[i].ref = m

----------------------------------------------------------------------------
(* The mock manager of mock mode (MockBluetoothManager): temperatures in   *)
(* 0.001 degrees, battery levels in 1/6000 percent, so that the rates per  *)
(* minute of types.ts are whole numbers per second                         *)

Filling == 2
Cooling == 4
Heating == 5
StableTemperature == 6

BatteryScale == 6000
FullBattery == 100 * BatteryScale

\* percent per minute (1.5, 0.5, 0.2), as 1/6000 percent per second
BATTERY_CHARGE_RATE == 150
BATTERY_DRAIN_RATE_HEATING == 50
BATTERY_DRAIN_RATE_MAINTAINING == 20

\* the tolerances of updateSimulation: 0.1 and 0.5 degrees
StableBand == 100
DirectionBand == 500

MockMugName ==
    << "M", "o", "c", "k", " ", "E", "m", "b", "e", "r", " ", "M", "u", "g" >>

EmberOrange == [r |-> 255, g |-> 147, b |-> 41, a |-> 255]

\* DEFAULT_CONFIG: 75 percent, 45 and 55 degrees, 0.5 degrees per second
DEFAULT_CONFIG ==
    [initialBattery |-> 75 * BatteryScale, initialCurrentTemp |-> 45000,
     initialTargetTemp |-> 55000, initialLiquidState |-> Cooling,
     initiallyCharging |-> FALSE, tempChangeRate |-> 500]

\* new MockBluetoothManager(config); scan is the position of the timers of
\* startScanning, sim says that simulationInterval is set
MockOf(config) ==
    [config |-> config, isConnected |-> FALSE, sim |-> FALSE,
     scan |-> "idle",
     state |-> [connected |-> FALSE,
                batteryLevel |-> config.initialBattery,
                isCharging |-> config.initiallyCharging,
                currentTemp |-> config.initialCurrentTemp,
                targetTemp |-> config.initialTargetTemp,
                liquidState |-> config.initialLiquidState,
                temperatureUnit |-> Celsius, color |-> EmberOrange,
                mugName |-> << >>]]

Sign(x) == IF x > 0 THEN 1 ELSE IF x < 0 THEN -1 ELSE 0

Min(a, b) == IF a < b THEN a ELSE b

Max(a, b) == IF a > b THEN a ELSE b

----------------------------------------------------------------------------

(* The whole program state as one record, so that a handler is a function *)
(* from state to state and handlers compose the way the code calls them   *)

World ==
    [ nobleState |-> nobleState, scanActive |-> scanActive,
      scanCall |-> scanCall, peripheral |-> peripheral,
      characteristics |-> characteristics, isConnected |-> isConnected,
      pollInterval |-> pollInterval, timers |-> timers, state |-> state,
      disc |-> disc, cwr |-> cwr, att |-> att, reqs |-> reqs,
      linkUp |-> linkUp, discHandlers |-> discHandlers,
      discCall |-> discCall, repair |-> repair, device |-> device,
      calls |-> calls,
      codec |-> codec, snap |-> snap, mock |-> mock, op |-> op,
      emitted |-> emitted ]

Put(w) ==
    /\ nobleState' = w.nobleState
    /\ scanActive' = w.scanActive
    /\ scanCall' = w.scanCall
    /\ peripheral' = w.peripheral
    /\ characteristics' = w.characteristics
    /\ isConnected' = w.isConnected
    /\ pollInterval' = w.pollInterval
    /\ timers' = w.timers
    /\ state' = w.state
    /\ disc' = w.disc
    /\ cwr' = w.cwr
    /\ att' = w.att
    /\ reqs' = w.reqs
    /\ linkUp' = w.linkUp
    /\ discHandlers' = w.discHandlers
    /\ discCall' = w.discCall
    /\ repair' = w.repair
    /\ device' = w.device
    /\ calls' = w.calls
    /\ codec' = w.codec
    /\ snap' = w.snap
    /\ mock' = w.mock
    /\ op' = w.op
    /\ emitted' = w.emitted

\* the state a step starts from: nothing emitted yet, the operation named
Begin(name, id, x) ==
    [World EXCEPT !.emitted = << >>,
                  !.op = [name |-> name, id |-> id, x |-> x, who |-> "",
                          settled |-> 0, err |-> "none", cancel |-> "none",
                          done |-> "none", uuid |-> "none", got |-> "none",
                          arg |-> << >>]]

\* EventEmitter.emit
emit(w, e) == [w EXCEPT !.emitted = Append(@, e)]

\* { ...this.state } (line 656): a new object with the fields of this.state;
\* its color field is the reference this.state.color holds. A MugState
\* value here is the object's fields with color dereferenced; which color
\* object a MugState refers to is kept in snap.
getState(w) == w.state

emitState(w) == emit(w, [ev |-> "stateChange", st |-> getState(w)])

handleDisconnect_ResetsState(w) ==
    emitState(emit([w EXCEPT !.isConnected = FALSE,
                             !.state = [connected |-> FALSE,
                                        batteryLevel |-> 0,
                                        isCharging |-> FALSE,
                                        currentTemp |-> 0, targetTemp |-> 0,
                                        liquidState |-> EmptyLiquid,
                                        temperatureUnit |-> Celsius,
                                        color |-> [r |-> 255, g |-> 255,
                                                   b |-> 255, a |-> 255],
                                        mugName |-> << >>],
                             !.timers = IF w.pollInterval THEN @ - 1 ELSE @,
                             !.pollInterval = FALSE,
                             !.characteristics = {}],
                   [ev |-> "disconnected"]))

handleDisconnect(w) ==
    emitState(emit([w EXCEPT !.isConnected = FALSE,
                             !.state.connected = FALSE,
                             !.timers = IF w.pollInterval THEN @ - 1 ELSE @,
                             !.pollInterval = FALSE,
                             !.characteristics = {}],
                   [ev |-> "disconnected"]))

startPolling(w) ==
    [w EXCEPT !.pollInterval = TRUE, !.timers = @ + 1]

----------------------------------------------------------------------------
(* Field readers: the part of each readX() after its awaited read; r is   *)
(* the result of readCharacteristic, [ok |-> FALSE] standing for null     *)

Null == [ok |-> FALSE, data |-> << >>]

readCurrentTemp(w, r) ==
    IF r.ok /\ Len(r.data) >= 2
    THEN emitState([w EXCEPT !.state.currentTemp = readUInt16LE(r.data)])
    ELSE w

readTargetTemp(w, r) ==
    IF r.ok /\ Len(r.data) >= 2
    THEN emitState([w EXCEPT !.state.targetTemp = readUInt16LE(r.data)])
    ELSE w

\* readBattery that is content with one byte
readBattery_OneByte(w, r) ==
    IF r.ok /\ Len(r.data) >= 1
    THEN emitState([w EXCEPT !.state.batteryLevel = r.data[1],
                             !.state.isCharging =
                                 (Len(r.data) >= 2 /\ r.data[2] = 1)])
    ELSE w

readBattery(w, r) ==
    IF r.ok /\ Len(r.data) >= 2
    THEN emitState([w EXCEPT !.state.batteryLevel = r.data[1],
                             !.state.isCharging = (r.data[2] = 1)])
    ELSE w

\* readLiquidState without the test of line 556
readLiquidState_NoValidation(w, r) ==
    IF r.ok /\ Len(r.data) >= 1
    THEN emitState([w EXCEPT !.state.liquidState = r.data[1]])
    ELSE w

readLiquidState(w, r) ==
    IF r.ok /\ Len(r.data) >= 1 /\ r.data[1] \in LiquidStateValues
    THEN emitState([w EXCEPT !.state.liquidState = r.data[1]])
    ELSE w

readTemperatureUnit(w, r) ==
    IF r.ok /\ Len(r.data) >= 1
    THEN emitState([w EXCEPT !.state.temperatureUnit = r.data[1]])
    ELSE w

readLedColor_SwapGB(w, r) ==
    IF r.ok /\ Len(r.data) >= 4
    THEN emitState([w EXCEPT !.state.color =
                        [r |-> r.data[1], g |-> r.data[3],
                         b |-> r.data[2], a |-> r.data[4]]])
    ELSE w

\* this.state.color = { ... } (line 574) makes a new object
readLedColor(w, r) ==
    IF r.ok /\ Len(r.data) >= 4
    THEN emitState([w EXCEPT !.state.color =
                        [r |-> r.data[1], g |-> r.data[2],
                         b |-> r.data[3], a |-> r.data[4]],
                             !.snap.ref = newObject(w.snap)])
    ELSE w

\* attemptPairing, lines 404-417: the mug name read
readMugName(w, r) ==
    IF r.ok /\ r.data # << >> /\ trim(stripNul(r.data)) # << >>
    THEN [w EXCEPT !.state.mugName = trim(stripNul(r.data))]
    ELSE w

\* the reader that owns a characteristic
applyRead(w, uuid, r) ==
    CASE uuid = "CURRENT_TEMP" -> readCurrentTemp(w, r)
      [] uuid = "TARGET_TEMP"  -> readTargetTemp(w, r)
      [] uuid = "BATTERY"      -> readBattery(w, r)
      [] uuid = "LIQUID_STATE" -> readLiquidState(w, r)
      [] uuid = "TEMP_UNIT"    -> readTemperatureUnit(w, r)
      [] uuid = "LED_COLOR"    -> readLedColor(w, r)
      [] uuid = "MUG_NAME"     -> readMugName(w, r)
      [] OTHER                 -> w

----------------------------------------------------------------------------
(* Promises of connect() and the connectWithRetry loop around them *)

NoPeripheral == [id |-> "null", name |-> << >>]

\* dropped: the peripheral's disconnect event arrived during this setup
NoAttempt == [timer |-> FALSE, link |-> "none", promise |-> "none",
              pc |-> "none", pending |-> 0, dropped |-> FALSE]

NoRun == [pc |-> "idle", attempt |-> 0, started |-> 0, delay |-> 0,
          waits |-> << >>, errors |-> 0]

\* Math.pow(2, attempt - 1) * 1000
backoffDelay_Doubled(attempt) == (2 ^ attempt) * 1000

backoffDelay(attempt) == (2 ^ (attempt - 1)) * 1000

\* connectWithRetry, lines 101-119: the catch block of one attempt and,
\* when the loop is exhausted, the terminal error
connectWithRetry_catch_ErrorPerAttempt(w, attempt) ==
    IF attempt < maxRetries
    THEN emit([w EXCEPT !.cwr.pc = "backoff",
                        !.cwr.errors = @ + 1,
                        !.cwr.delay = backoffDelay(attempt),
                        !.cwr.waits = Append(@, backoffDelay(attempt))],
              [ev |-> "error", kind |-> "ConnectionFailed"])
    ELSE emit([w EXCEPT !.cwr.pc = "failed", !.cwr.errors = @ + 1],
              [ev |-> "error", kind |-> "ConnectionFailed"])

connectWithRetry_catch(w, attempt) ==
    IF attempt < maxRetries
    THEN [w EXCEPT !.cwr.pc = "backoff",
                   !.cwr.delay = backoffDelay(attempt),
                   !.cwr.waits = Append(@, backoffDelay(attempt))]
    ELSE emit([w EXCEPT !.cwr.pc = "failed", !.cwr.errors = @ + 1],
              [ev |-> "error", kind |-> "ConnectionFailed"])

\* reject(...) of the promise of connect() call k; a settled promise ignores it
\* op.err records the error the step rejected with
rejectConnect(w, k, err) ==
    IF w.att[k].promise # "pending" THEN w
    ELSE connectWithRetry_catch([w EXCEPT !.att[k].promise = "rejected",
                                          !.op.err = err], k)

\* resolve() of the promise of connect() call k: connectWithRetry returns
resolveConnect(w, k) ==
    IF w.att[k].promise # "pending" THEN w
    ELSE [w EXCEPT !.att[k].promise = "resolved", !.cwr.pc = "succeeded"]

\* connect(), lines 173-219: up to the call of peripheral.connect
connect(w, k) ==
    LET w1 == [w EXCEPT !.cwr.pc = "connecting", !.cwr.attempt = k,
                        !.cwr.started = @ + 1, !.cwr.delay = 0]
    IN  IF w.peripheral.id = "null"
        THEN rejectConnect([w1 EXCEPT !.att[k] =
                               [NoAttempt EXCEPT !.promise = "pending"]], k,
                           "NoPeripheral")
        ELSE [w1 EXCEPT !.att[k] =
                 [NoAttempt EXCEPT !.timer = TRUE, !.link = "pending",
                                   !.promise = "pending", !.pc = "link"]]

----------------------------------------------------------------------------
(* The setup pipeline of connect(), lines 242-266 *)

Request(kind, uuid, data, who, id, x) ==
    [kind |-> kind, uuid |-> uuid, data |-> data, who |-> who, id |-> id,
     x |-> x]

setupFailed_NoTeardown(w, k, err) ==
    rejectConnect([w EXCEPT !.att[k].pc = "failed"], k, err)

\* catch block, lines 261-266
setupFailed(w, k, err) ==
    rejectConnect(handleDisconnect([w EXCEPT !.att[k].pc = "failed"]), k, err)

\* lines 256-260
finishConnect(w, k) ==
    resolveConnect(
        emitState(emit(startPolling([w EXCEPT !.att[k].pc = "finished"]),
                       [ev |-> "connected"])), k)

InitialReads == << "CURRENT_TEMP", "TARGET_TEMP", "BATTERY", "LIQUID_STATE",
                   "TEMP_UNIT", "LED_COLOR" >>

readInitialValues_NotAwaited(w, k) ==
    LET present == SelectSeq(InitialReads,
                             LAMBDA u : u \in w.characteristics)
    IN  finishConnect([w EXCEPT
                !.reqs = @ \o [i \in 1..Len(present) |->
                                 Request("read", present[i], << >>,
                                         "push", 0, 0)],
                !.att[k].pending = Len(present)], k)

\* readInitialValues: the six reads are issued together; a name missing
\* from the handle table yields null at once
readInitialValues(w, k) ==
    LET present == SelectSeq(InitialReads,
                             LAMBDA u : u \in w.characteristics)
    IN  IF present = << >> THEN finishConnect(w, k)
        ELSE [w EXCEPT
                !.reqs = @ \o [i \in 1..Len(present) |->
                                 Request("read", present[i], << >>,
                                         "init", k, 0)],
                !.att[k].pc = "initReads",
                !.att[k].pending = Len(present)]

\* setupNotifications preceded by a write of the LED color
setupNotifications_ProbesColor(w, k) ==
    LET w1 == IF "LED_COLOR" \in w.characteristics
              THEN [w EXCEPT !.reqs = Append(@,
                       Request("write", "LED_COLOR",
                               << w.state.color.r, w.state.color.g,
                                  w.state.color.b, w.state.color.a >>,
                               "pair", k, 0))]
              ELSE w
    IN  IF "PUSH_EVENTS" \in w1.characteristics
        THEN [w1 EXCEPT !.att[k].pc = "subscribe"]
        ELSE readInitialValues(w1, k)

\* setupNotifications up to subscribe(), lines 326-333 and 347-349
setupNotifications(w, k) ==
    IF "PUSH_EVENTS" \in w.characteristics
    THEN [w EXCEPT !.att[k].pc = "subscribe"]
    ELSE readInitialValues(w, k)

PairReads == << "MUG_NAME", "DSK", "UDSK" >>

RECURSIVE attemptPairing_WritesKey(_, _, _)
\* attemptPairing that writes a key to UDSK after its reads
attemptPairing_WritesKey(w, k, i) ==
    IF i > Len(PairReads)
    THEN [w EXCEPT !.att[k].pc = "pairDelay",
                   !.reqs = IF "UDSK" \in w.characteristics
                            THEN Append(@, Request("write", "UDSK", << 1 >>,
                                                   "pair", k, i))
                            ELSE @]
    ELSE IF PairReads[i] \in w.characteristics
    THEN [w EXCEPT !.reqs = Append(@, Request("read", PairReads[i], << >>,
                                               "pair", k, i)),
                   !.att[k].pc = "pairing"]
    ELSE attemptPairing_WritesKey(w, k, i + 1)

RECURSIVE attemptPairing(_, _, _)
\* attemptPairing from its i-th read on; after the third the 500 ms delay
attemptPairing(w, k, i) ==
    IF i > Len(PairReads) THEN [w EXCEPT !.att[k].pc = "pairDelay"]
    ELSE IF PairReads[i] \in w.characteristics
    THEN [w EXCEPT !.reqs = Append(@, Request("read", PairReads[i], << >>,
                                               "pair", k, i)),
                   !.att[k].pc = "pairing"]
    ELSE attemptPairing(w, k, i + 1)

----------------------------------------------------------------------------
(* Public setters, lines 584-653 *)

NoCall == [fn |-> "none", pc |-> "idle", temp |-> 0, unit |-> 0,
           color |-> White, result |-> "none", reread |-> "none",
           alone |-> TRUE]

\* the characteristic a setter writes and re-reads
FieldOf(fn) ==
    CASE fn = "setTargetTemp"      -> "TARGET_TEMP"
      [] fn = "setTemperatureUnit" -> "TEMP_UNIT"
      [] fn = "setLedColor"        -> "LED_COLOR"
      [] OTHER                     -> "none"

\* the bytes a setter writes (lines 586-592, 615, 633)
setTargetTemp_buffer(temp) == writeUInt16LE(roundHundredths(clampTemp(temp)))

BufferOf(call) ==
    CASE call.fn = "setTargetTemp"      -> setTargetTemp_buffer(call.temp)
      [] call.fn = "setTemperatureUnit" -> << call.unit >>
      [] call.fn = "setLedColor"        ->
            << call.color.r, call.color.g, call.color.b, call.color.a >>

\* the promise of setter call c settles
settle(w, c, result) ==
    [w EXCEPT !.calls[c].pc = "done", !.calls[c].result = result,
              !.op.settled = c]

\* the verification after the re-read (lines 605-610, 621-626, 641-652)
verify_ColorWithAlpha(w, c) ==
    LET call == w.calls[c]
        mismatch ==
            CASE call.fn = "setTargetTemp" ->
                    Abs(w.state.targetTemp * 10 - clampTemp(call.temp)) > 500
              [] call.fn = "setTemperatureUnit" ->
                    w.state.temperatureUnit # call.unit
              [] call.fn = "setLedColor" -> w.state.color # call.color
    IN  settle(w, c, IF mismatch THEN "WriteNotApplied" ELSE "ok")

verify_Always(w, c) == settle(w, c, "ok")

verify(w, c) ==
    LET call == w.calls[c]
        mismatch ==
            CASE call.fn = "setTargetTemp" ->
                    Abs(w.state.targetTemp * 10 - clampTemp(call.temp)) > 500
              [] call.fn = "setTemperatureUnit" ->
                    w.state.temperatureUnit # call.unit
              [] call.fn = "setLedColor" ->
                    \/ w.state.color.r # call.color.r
                    \/ w.state.color.g # call.color.g
                    \/ w.state.color.b # call.color.b
    IN  settle(w, c, IF mismatch THEN "WriteNotApplied" ELSE "ok")

\* a setter whose writeCharacteristic returns when the handle is missing
\* instead of throwing: the re-read finds no handle either and the call is
\* verified against the cached value
setter_IgnoresMissingHandle(w, c, call) ==
    LET uuid == FieldOf(call.fn)
        busy(d) == d # c /\ w.calls[d].fn = call.fn
                   /\ w.calls[d].pc \in {"write", "verify"}
        others == {d \in DOMAIN w.calls : busy(d)}
        w1 == [w EXCEPT !.calls =
                 [d \in DOMAIN w.calls |->
                    IF d = c THEN [call EXCEPT !.alone = (others = {})]
                    ELSE IF d \in others
                         THEN [w.calls[d] EXCEPT !.alone = FALSE]
                         ELSE w.calls[d]]]
    IN  IF uuid \notin w.characteristics
        THEN verify([w1 EXCEPT !.calls[c].reread = "null"], c)
        ELSE [w1 EXCEPT !.calls[c].pc = "write",
                        !.reqs = Append(@, Request("write", uuid,
                                                   BufferOf(call),
                                                   "set", c, 0))]

\* a setter up to its write: writeCharacteristic throws when the name is
\* not in the handle table, otherwise the write is handed to the adapter
setter(w, c, call) ==
    LET uuid == FieldOf(call.fn)
        busy(d) == d # c /\ w.calls[d].fn = call.fn
                   /\ w.calls[d].pc \in {"write", "verify"}
        others == {d \in DOMAIN w.calls : busy(d)}
        w1 == [w EXCEPT !.calls =
                 [d \in DOMAIN w.calls |->
                    IF d = c THEN [call EXCEPT !.alone = (others = {})]
                    ELSE IF d \in others
                         THEN [w.calls[d] EXCEPT !.alone = FALSE]
                         ELSE w.calls[d]]]
    IN  IF uuid \notin w.characteristics
        THEN settle(w1, c, "rejected")
        ELSE [w1 EXCEPT !.calls[c].pc = "write",
                        !.reqs = Append(@, Request("write", uuid,
                                                   BufferOf(call),
                                                   "set", c, 0))]

\* after the awaited write: the re-read of the same field
reread(w, c) ==
    LET uuid == FieldOf(w.calls[c].fn)
    IN  IF uuid \in w.characteristics
        THEN [w EXCEPT !.calls[c].pc = "verify",
                       !.reqs = Append(@, Request("read", uuid, << >>,
                                                  "set", c, 0))]
        ELSE verify([w EXCEPT !.calls[c].reread = "null"], c)

----------------------------------------------------------------------------
(* Continuations: what runs when the adapter answers a read or a write *)

\* the code after an awaited readCharacteristic, by the caller that awaits
resumeRead(w, q, r) ==
    CASE q.who = "push" -> applyRead(w, q.uuid, r)
      [] q.who = "poll1" ->
            \* startPolling, lines 451-452: then readLiquidState
            LET w1 == readCurrentTemp(w, r)
            IN  IF "LIQUID_STATE" \in w1.characteristics
                THEN [w1 EXCEPT !.reqs = Append(@,
                         Request("read", "LIQUID_STATE", << >>, "poll2", 0, 0))]
                ELSE w1
      [] q.who = "poll2" -> readLiquidState(w, r)
      [] q.who = "init" ->
            LET w1 == applyRead(w, q.uuid, r)
                w2 == [w1 EXCEPT !.att[q.id].pending = @ - 1]
            IN  IF w2.att[q.id].pending = 0
                THEN finishConnect(w2, q.id) ELSE w2
      [] q.who = "pair" ->
            attemptPairing(applyRead(w, q.uuid, r), q.id, q.x + 1)
      [] q.who = "set" ->
            verify([applyRead(w, q.uuid, r) EXCEPT
                       !.calls[q.id].reread =
                           IF ~r.ok THEN "null"
                           ELSE IF w.op.got = "short" THEN "short"
                           ELSE "data"], q.id)

\* what the peripheral holds for a characteristic
deviceValue(dev, uuid) ==
    CASE uuid = "MUG_NAME"     -> dev.name
      [] uuid = "CURRENT_TEMP" -> dev.current
      [] uuid = "TARGET_TEMP"  -> dev.target
      [] uuid = "TEMP_UNIT"    -> dev.unit
      [] uuid = "BATTERY"      -> dev.battery
      [] uuid = "LIQUID_STATE" -> dev.liquid
      [] uuid = "LED_COLOR"    -> dev.color
      [] OTHER                 -> << 0 >>

\* the peripheral receives a write; a device that ignores writes keeps its value
deviceWrite(dev, uuid, data) ==
    IF ~dev.applies THEN dev
    ELSE CASE uuid = "TARGET_TEMP" -> [dev EXCEPT !.target = data]
           [] uuid = "TEMP_UNIT"   -> [dev EXCEPT !.unit = data]
           [] uuid = "LED_COLOR"   -> [dev EXCEPT !.color = data]
           [] OTHER                -> dev

----------------------------------------------------------------------------
(* Initial state: the manager as constructed (lines 29-49) *)

\* setter calls are issued one at a time: one call slot
CallIds == {1}

\* the calls that may be in progress at once: a second slot is used where
\* calls overlap (specification SpecOverlap)
CallSlots == {1, 2}

\* the mug of Spec: empty, at room temperature (21.50), target 55.00,
\* battery flat, LED white
Device0 ==
    [name |-> << "M", "u", "g", "NUL" >>, current |-> writeUInt16LE(2150),
     target |-> writeUInt16LE(5500), unit |-> << Celsius >>,
     battery |-> << 0, 0 >>, liquid |-> << EmptyLiquid >>,
     color |-> << 255, 255, 255, 255 >>, applies |-> TRUE]

NoCodec == [pc |-> "idle", n |-> 0, buf |-> << 0, 0 >>, out |-> 0]

Constructed ==
    /\ nobleState = "unknown"
    /\ scanActive = FALSE
    /\ scanCall = "none"
    /\ peripheral = NoPeripheral
    /\ characteristics = {}
    /\ isConnected = FALSE
    /\ pollInterval = FALSE
    /\ timers = 0
    /\ state = InitialState
    /\ disc = [pc |-> "idle", p |-> NoPeripheral]
    /\ cwr = NoRun
    /\ att = [k \in 1..maxRetries |-> NoAttempt]
    /\ reqs = << >>
    /\ linkUp = FALSE
    /\ discHandlers = 0
    /\ discCall = "none"
    /\ repair = "none"
    /\ calls = [c \in CallSlots |-> NoCall]
    /\ snap = NoSnapshots
    /\ op = [name |-> "constructor", id |-> 0, x |-> 0, who |-> "",
             settled |-> 0, err |-> "none", cancel |-> "none",
             done |-> "none", uuid |-> "none", got |-> "none",
             arg |-> << >>]
    /\ emitted = << >>

Init ==
    /\ Constructed
    /\ device = Device0
    /\ codec = NoCodec
    /\ mock = MockOf(DEFAULT_CONFIG)

\* a step is taken only within the bounds of the model
Step(w) ==
    /\ w.timers <= MaxTimers
    /\ w.discHandlers <= MaxHandlers
    /\ Put(w)

----------------------------------------------------------------------------
(* Scanning and discovery, lines 54-88 and 122-171 *)

\* startScan, lines 130-142, up to noble.startScanning
startScan(w) ==
    emit([w EXCEPT !.scanCall = "starting"], [ev |-> "scanning", on |-> TRUE])

\* the once-listener of lines 149-157 registered with noble.on: a state
\* other than poweredOn leaves the call waiting
AdapterStateChange_KeepsWaiting(s) ==
    /\ s # nobleState
    /\ LET w0 == [Begin("nobleStateChange", 0, 0) EXCEPT
                     !.nobleState = s,
                     !.scanActive = IF s = "poweredOn" THEN @ ELSE FALSE]
           w1 == IF s = "poweredOn" THEN w0
                 ELSE emit(w0, [ev |-> "error", kind |-> "BluetoothState"])
           w2 == IF w1.scanCall = "waiting" /\ s = "poweredOn"
                 THEN startScan(w1) ELSE w1
       IN  Step(w2)

\* the adapter reports a power state: the listener of line 54, then the
\* once-listener startScanning may have registered (lines 149-157)
AdapterStateChange(s) ==
    /\ s # nobleState
    /\ LET w0 == [Begin("nobleStateChange", 0, 0) EXCEPT
                     !.nobleState = s,
                     !.scanActive = IF s = "poweredOn" THEN @ ELSE FALSE]
           w1 == IF s = "poweredOn" THEN w0
                 ELSE emit(w0, [ev |-> "error", kind |-> "BluetoothState"])
           w2 == IF w1.scanCall # "waiting" THEN w1
                 ELSE IF s = "poweredOn" THEN startScan(w1)
                 ELSE [w1 EXCEPT !.scanCall = "rejected",
                                 !.op.err = "AdapterUnavailable"]
       IN  Step(w2)

\* startScanning(), lines 122-160
StartScanning ==
    /\ scanCall \notin {"waiting", "starting"}
    /\ LET w0 == Begin("startScanning", 0, 0)
       IN  Step(IF nobleState = "poweredOn" THEN startScan(w0)
                ELSE [w0 EXCEPT !.scanCall = "waiting"])

\* the callback of noble.startScanning, lines 133-141
ScanStarted(ok) ==
    /\ scanCall = "starting"
    /\ LET w0 == Begin("scanStarted", 0, 0)
       IN  Step(IF ok
                THEN [w0 EXCEPT !.scanCall = "resolved",
                                !.scanActive = (nobleState = "poweredOn")]
                ELSE [w0 EXCEPT !.scanCall = "rejected"])

\* the adapter reports an advertisement: lines 64-73. One discover handler
\* and one connectWithRetry run are in progress at a time.
Discover(name) ==
    /\ scanActive
    /\ disc.pc = "idle"
    /\ cwr.pc \notin {"connecting", "backoff"}
    /\ LET w0 == [Begin("discover", 0, 0) EXCEPT !.op.arg = name]
       IN  Step(IF includes(toLowerCase(name), EmberWord)
                THEN emit(emit([w0 EXCEPT !.disc =
                                   [pc |-> "stopping",
                                    p |-> [id |-> "mug", name |-> name]]],
                               [ev |-> "mugFound", name |-> name]),
                          [ev |-> "scanning", on |-> FALSE])
                ELSE w0)

\* the POST_SCAN_DELAY timer fires: connectWithRetry() starts (lines 85-98).
\* Callbacks still owed to an earlier run are taken never to arrive.
SettleDone ==
    /\ disc.pc = "settling"
    /\ LET w0 == [Begin("connectWithRetry", 0, 0) EXCEPT
                     !.disc.pc = "idle",
                     !.cwr = NoRun,
                     !.att = [k \in 1..maxRetries |-> NoAttempt],
                     !.reqs = SelectSeq(@, LAMBDA q :
                                  q.who \notin {"init", "pair"})]
       IN  Step(connect(w0, 1))

\* the backoff timer of line 109 fires: the next attempt
BackoffDone ==
    /\ cwr.pc = "backoff"
    /\ Step(connect(Begin("backoffDone", cwr.attempt + 1, 0),
                    cwr.attempt + 1))

----------------------------------------------------------------------------
(* connect(): timeout, link callback and the callbacks of the pipeline *)

Attempts == 1..maxRetries

\* positions of connect() between the link callback and the end of setup
SetupPcs == {"discSvc", "discChars", "pairing", "pairDelay", "subscribe",
             "initReads"}

\* the CONNECTION_TIMEOUT timer fires, lines 198-216. The timer is live only
\* while the link callback has not run (cleanup, lines 222 and 229), so the
\* test of line 199 passes. this.peripheral?.disconnect() is best effort:
\* nothing is asked when the reference is null, an exception is swallowed,
\* and the link, if any, may drop at any later time.
connectTimeout(w, k) ==
    rejectConnect([w EXCEPT !.att[k].timer = FALSE,
                            !.op.cancel =
                                IF w.peripheral.id = "null" THEN "skipped"
                                ELSE "requested"],
                  k, "ConnectionTimeout")

ConnectTimeout(k) ==
    /\ att[k].timer
    /\ Step(connectTimeout(Begin("connectTimeout", k, 0), k))

linkCallback_NoCleanupOnError(w, k, ok) ==
    LET w1 == [w EXCEPT !.att[k].timer = ~ok, !.att[k].link = "done"]
    IN  IF ~ok THEN rejectConnect([w1 EXCEPT !.att[k].pc = "failed"], k,
                                  "LinkFailed")
        ELSE [w1 EXCEPT !.isConnected = TRUE,
                        !.state.connected = TRUE,
                        !.state.mugName = IF w.peripheral.name # << >>
                                          THEN w.peripheral.name
                                          ELSE DefaultMugName,
                        !.linkUp = TRUE,
                        !.discHandlers = @ + 1,
                        !.att[k].pc = "discSvc"]

\* the callback of peripheral.connect, lines 219-244
linkCallback(w, k, ok) ==
    LET w1 == [w EXCEPT !.att[k].timer = FALSE, !.att[k].link = "done"]
    IN  IF ~ok THEN rejectConnect([w1 EXCEPT !.att[k].pc = "failed"], k,
                                  "LinkFailed")
        ELSE IF w.peripheral.id = "null"
        THEN \* this.peripheral! is null at line 233: the callback throws
             [w1 EXCEPT !.isConnected = TRUE, !.state.connected = TRUE,
                        !.linkUp = TRUE, !.att[k].pc = "threw"]
        ELSE [w1 EXCEPT !.isConnected = TRUE,
                        !.state.connected = TRUE,
                        !.state.mugName = IF w.peripheral.name # << >>
                                          THEN w.peripheral.name
                                          ELSE DefaultMugName,
                        !.linkUp = TRUE,
                        !.discHandlers = @ + 1,
                        !.att[k].pc = "discSvc"]

LinkCallback(k, ok) ==
    /\ att[k].link = "pending"
    /\ Step(linkCallback(Begin("linkCallback", k, IF ok THEN 1 ELSE 0), k, ok))

\* the callback of peripheral.discoverServices, lines 277-298
DiscoverServicesDone(k, outcome) ==
    /\ att[k].pc = "discSvc"
    /\ LET w0 == Begin("discoverServicesDone", k,
                        IF outcome = "none" THEN 1 ELSE 0)
       IN  Step(IF outcome = "found"
                THEN [w0 EXCEPT !.att[k].pc = "discChars"]
                ELSE setupFailed(w0, k, IF outcome = "none"
                                        THEN "ServiceNotFound"
                                        ELSE "DiscoveryFailed"))

\* the handle tables a firmware can offer
DiscoverableSets == {Chars, Chars \ {"PUSH_EVENTS", "LED_COLOR", "UDSK"}}

\* the callback of emberService.discoverCharacteristics, lines 298-322,
\* then attemptPairing up to its first read
DiscoverCharacteristicsDone(k, ok, found) ==
    /\ att[k].pc = "discChars"
    /\ LET w0 == Begin("discoverCharacteristicsDone", k, 0)
       IN  Step(IF ok
                THEN attemptPairing(
                         [w0 EXCEPT !.characteristics = @ \cup found], k, 1)
                ELSE setupFailed(w0, k, "DiscoveryFailed"))

\* the 500 ms timer of attemptPairing fires (line 444): setupNotifications
PairDelayDone(k) ==
    /\ att[k].pc = "pairDelay"
    /\ Step(setupNotifications(Begin("pairDelayDone", k, 0), k))

\* the callback of pushEventsChar.subscribe, lines 333-345
SubscribeDone(k, ok) ==
    /\ att[k].pc = "subscribe"
    /\ LET w0 == Begin("subscribeDone", k, 0)
       IN  Step(IF ok THEN readInitialValues(w0, k)
                ELSE setupFailed(w0, k, "SubscribeFailed"))

----------------------------------------------------------------------------
(* The adapter answers characteristic requests, oldest first *)

\* a payload one byte shorter than the field's layout
oneByteShort(data) ==
    IF data = << >> THEN << >> ELSE SubSeq(data, 1, Len(data) - 1)

\* the callback of char.read, lines 477-483
ReadDone(outcome) ==
    /\ reqs # << >>
    /\ Head(reqs).kind = "read"
    /\ LET q  == Head(reqs)
           w0 == [Begin("readDone", q.id, 0) EXCEPT !.reqs = Tail(@),
                                                    !.op.who = q.who,
                                                    !.op.uuid = q.uuid,
                                                    !.op.got = outcome]
           r  == CASE outcome = "data" ->
                        [ok |-> TRUE, data |-> deviceValue(device, q.uuid)]
                   [] outcome = "short" ->
                        [ok |-> TRUE, data |-> oneByteShort(
                                          deviceValue(device, q.uuid))]
                   [] OTHER -> Null
       IN  Step(resumeRead(w0, q, r))

\* the callback of char.write, lines 503-511: the peripheral has received
\* the bytes when the write is acknowledged
WriteDone(ok) ==
    /\ reqs # << >>
    /\ Head(reqs).kind = "write"
    /\ LET q  == Head(reqs)
           w0 == [Begin("writeDone", q.id, IF ok THEN 1 ELSE 0) EXCEPT
                                                     !.reqs = Tail(@),
                                                     !.op.who = q.who,
                                                     !.op.uuid = q.uuid]
       IN  Step(IF ok
                THEN reread([w0 EXCEPT !.device =
                                deviceWrite(@, q.uuid, q.data)], q.id)
                ELSE settle(w0, q.id, "rejected"))

\* the link is down and the adapter never answers the oldest request
RequestDropped ==
    /\ reqs # << >>
    /\ ~linkUp
    /\ Step([Begin("requestDropped", 0, 0) EXCEPT !.reqs = Tail(@)])

----------------------------------------------------------------------------
(* Polling and disconnecting, lines 447-470 and 663-676 *)

External(q) == q.who \in {"poll1", "poll2", "push", "set"}

QueueHasRoom == Len(SelectSeq(reqs, External)) < MaxQueue

\* the callback of setInterval, lines 449-454, up to its first read
\* the setInterval callback without the test of line 450
pollTick_NoConnectedTest(w) ==
    IF "CURRENT_TEMP" \in w.characteristics
    THEN [w EXCEPT !.reqs = Append(@,
             Request("read", "CURRENT_TEMP", << >>, "poll1", 0, 0))]
    ELSE resumeRead(w, Request("read", "CURRENT_TEMP", << >>, "poll1", 0, 0),
                    Null)

pollTick(w) ==
    IF ~w.isConnected THEN w
    ELSE IF "CURRENT_TEMP" \in w.characteristics
    THEN [w EXCEPT !.reqs = Append(@,
             Request("read", "CURRENT_TEMP", << >>, "poll1", 0, 0))]
    ELSE resumeRead(w, Request("read", "CURRENT_TEMP", << >>, "poll1", 0, 0),
                    Null)

PollTick ==
    /\ timers > 0
    /\ QueueHasRoom
    /\ Step(pollTick(Begin("pollTick", 0, 0)))

\* forgetAndRepair, lines 698-700: the retained peripheral is dropped and
\* the call resolves
forget(w) ==
    [w EXCEPT !.peripheral = NoPeripheral, !.repair = "resolved",
              !.op.done = "forgetAndRepair"]

RECURSIVE fireDisconnectHandlers(_, _)
\* each once("disconnect") listener of lines 237-240 runs handleDisconnect
fireDisconnectHandlers(w, n) ==
    IF n = 0 THEN w ELSE fireDisconnectHandlers(handleDisconnect(w), n - 1)

\* the peripheral's "disconnect" event: the listeners registered by
\* connect() run, then the callback of a pending disconnect() (lines 670-673)
DisconnectEvent ==
    /\ linkUp \/ discCall = "pending"
    /\ LET w0 == [Begin("disconnectEvent", 0, 0) EXCEPT
                     !.linkUp = FALSE, !.discHandlers = 0,
                     !.att = [k \in Attempts |->
                                IF att[k].pc \in SetupPcs
                                THEN [att[k] EXCEPT !.dropped = TRUE]
                                ELSE att[k]]]
           w1 == fireDisconnectHandlers(w0, discHandlers)
           w2 == IF discCall = "pending"
                 THEN [handleDisconnect(w1) EXCEPT !.discCall = "resolved",
                                                   !.op.done = "disconnect"]
                 ELSE w1
       IN  Step(IF repair = "disconnecting" THEN forget(w2) ELSE w2)

\* disconnect(), lines 663-676, up to peripheral.disconnect; when the test
\* of line 668 fails the call returns at once ("skipped")
disconnect(w) ==
    LET w1 == [w EXCEPT !.timers = IF w.pollInterval THEN @ - 1 ELSE @,
                        !.pollInterval = FALSE]
    IN  IF w.peripheral.id # "null" /\ w.isConnected
        THEN [w1 EXCEPT !.discCall = "pending"]
        ELSE [w1 EXCEPT !.discCall = "skipped", !.op.done = "disconnect"]

\* positions in which a forgetAndRepair() call is in progress
RepairBusy == {"stopping", "stoppingSecond", "disconnecting"}

\* disconnect() is not called while an earlier disconnect() or a
\* forgetAndRepair() is in progress
Disconnect ==
    /\ discCall # "pending"
    /\ repair \notin RepairBusy
    /\ Step(disconnect(Begin("disconnect", 0, 0)))

----------------------------------------------------------------------------
(* forgetAndRepair(), lines 679-701, and the end of a scan *)

\* forgetAndRepair after its awaited stopScanning(), lines 689-700
forgetAndRepair_afterStop(w) ==
    IF ~w.isConnected THEN forget(w)
    ELSE LET w1 == disconnect(w)
         IN  IF w1.discCall = "pending"
             THEN [w1 EXCEPT !.repair = "disconnecting"]
             ELSE forget([w1 EXCEPT !.op.done = "none"])

\* the discover handler after its awaited stopScanning(), lines 74-83
discover_afterStop(w) ==
    [w EXCEPT !.peripheral = w.disc.p, !.disc.pc = "settling"]

\* forgetAndRepair() up to noble.stopScanning (lines 679-684, 162-166);
\* "stoppingSecond": the discover handler asked for the stop first
ForgetAndRepair ==
    /\ repair \notin RepairBusy
    /\ discCall # "pending"
    /\ Step(emit([Begin("forgetAndRepair", 0, 0) EXCEPT
                     !.repair = IF disc.pc = "stopping"
                                THEN "stoppingSecond" ELSE "stopping"],
                 [ev |-> "scanning", on |-> FALSE]))

\* the scan stops: every callback given to noble.stopScanning runs, in the
\* order the stops were asked for. The adapter serves a start asked before
\* the stop first.
StopScanDone ==
    /\ disc.pc = "stopping" \/ repair \in {"stopping", "stoppingSecond"}
    /\ scanCall # "starting"
    /\ LET w0 == [Begin("scanStopped", 0, 0) EXCEPT !.scanActive = FALSE]
           d(w) == IF w.disc.pc = "stopping" THEN discover_afterStop(w)
                   ELSE w
           r(w) == IF w.repair \in {"stopping", "stoppingSecond"}
                   THEN forgetAndRepair_afterStop(w) ELSE w
       IN  Step(IF repair = "stoppingSecond" THEN r(d(w0)) ELSE d(r(w0)))

----------------------------------------------------------------------------
(* Specification of the connection lifecycle *)

AdvertisedNames == { AdvertisedName, << "m", "u", "g" >>, << >> }

\* no discover handler and no connectWithRetry run is in progress
Quiet == disc.pc = "idle" /\ cwr.pc \notin {"connecting", "backoff"}

\* In Spec the adapter changes power state and the user scans only between
\* connection runs, a link callback arrives only while its connect() is
\* still awaited, and no poll tick is delivered (SpecSession delivers them).
Next ==
    \/ (Quiet /\ \E s \in {"poweredOn", "poweredOff"} : AdapterStateChange(s))
    \/ (Quiet /\ ~scanActive /\ StartScanning)
    \/ \E ok \in BOOLEAN : ScanStarted(ok)
    \/ \E name \in AdvertisedNames : Discover(name)
    \/ StopScanDone
    \/ SettleDone
    \/ BackoffDone
    \/ \E k \in Attempts : ConnectTimeout(k)
    \/ \E k \in Attempts, ok \in BOOLEAN :
          att[k].promise = "pending" /\ LinkCallback(k, ok)
    \/ \E k \in Attempts, outcome \in {"error", "none", "found"} :
          DiscoverServicesDone(k, outcome)
    \/ \E k \in Attempts, ok \in BOOLEAN, found \in DiscoverableSets :
          DiscoverCharacteristicsDone(k, ok, found)
    \/ \E k \in Attempts : PairDelayDone(k)
    \/ \E k \in Attempts, ok \in BOOLEAN : SubscribeDone(k, ok)
    \/ \E outcome \in {"data", "error"} : ReadDone(outcome)
    \/ RequestDropped
    \/ DisconnectEvent
    \/ Disconnect

Spec == Init /\ [][Next]_vars

\* The lifecycle with forgetAndRepair(): the adapter becomes ready and
\* stays ready, the mug offers every characteristic and answers every read;
\* scans, link outcomes, an absent service, timeouts, drops, disconnect()
\* and forgetAndRepair() come in any order.
NextRepair ==
    \/ (Quiet /\ AdapterStateChange("poweredOn"))
    \/ (Quiet /\ ~scanActive /\ StartScanning)
    \/ ScanStarted(TRUE)
    \/ Discover(AdvertisedName)
    \/ StopScanDone
    \/ ForgetAndRepair
    \/ SettleDone
    \/ BackoffDone
    \/ \E k \in Attempts : ConnectTimeout(k)
    \/ \E k \in Attempts, ok \in BOOLEAN :
          att[k].promise = "pending" /\ LinkCallback(k, ok)
    \/ \E k \in Attempts, outcome \in {"none", "found"} :
          DiscoverServicesDone(k, outcome)
    \/ \E k \in Attempts : DiscoverCharacteristicsDone(k, TRUE, Chars)
    \/ \E k \in Attempts : PairDelayDone(k)
    \/ \E k \in Attempts : SubscribeDone(k, TRUE)
    \/ ReadDone("data")
    \/ RequestDropped
    \/ DisconnectEvent
    \/ Disconnect

SpecRepair == Init /\ [][NextRepair]_vars

----------------------------------------------------------------------------
(* Push events, lines 341-343 and 352-386 *)

\* a reader called without await by handlePushEvent, up to its read
pushRead(w, uuid) ==
    IF uuid \in w.characteristics
    THEN [w EXCEPT !.reqs = Append(@, Request("read", uuid, << >>,
                                              "push", 0, 0))]
    ELSE w

\* data[0] of an empty Buffer is undefined: no case matches
eventTypeOf(data) == IF data = << >> THEN -1 ELSE data[1]

handlePushEvent_DefaultRefresh(w, data) ==
    LET eventType == eventTypeOf(data)
    IN  CASE eventType = 1 -> pushRead(w, "BATTERY")
          [] eventType = 2 -> emitState([w EXCEPT !.state.isCharging = TRUE])
          [] eventType = 3 -> emitState([w EXCEPT !.state.isCharging = FALSE])
          [] eventType = 4 -> pushRead(w, "TARGET_TEMP")
          [] eventType = 5 -> pushRead(w, "CURRENT_TEMP")
          [] eventType = 8 -> pushRead(w, "LIQUID_STATE")
          [] OTHER -> emitState(w)

\* handlePushEvent that refreshes the temperature and the liquid state on a
\* temperature event
handlePushEvent_BulkRefresh(w, data) ==
    LET eventType == eventTypeOf(data)
    IN  CASE eventType = 1 -> pushRead(w, "BATTERY")
          [] eventType = 2 -> emitState([w EXCEPT !.state.isCharging = TRUE])
          [] eventType = 3 -> emitState([w EXCEPT !.state.isCharging = FALSE])
          [] eventType = 4 -> pushRead(w, "TARGET_TEMP")
          [] eventType = 5 -> pushRead(pushRead(w, "CURRENT_TEMP"),
                                       "LIQUID_STATE")
          [] eventType = 8 -> pushRead(w, "LIQUID_STATE")
          [] OTHER -> w

handlePushEvent(w, data) ==
    LET eventType == eventTypeOf(data)
    IN  CASE eventType = 1 -> pushRead(w, "BATTERY")
          [] eventType = 2 -> emitState([w EXCEPT !.state.isCharging = TRUE])
          [] eventType = 3 -> emitState([w EXCEPT !.state.isCharging = FALSE])
          [] eventType = 4 -> pushRead(w, "TARGET_TEMP")
          [] eventType = 5 -> pushRead(w, "CURRENT_TEMP")
          [] eventType = 8 -> pushRead(w, "LIQUID_STATE")
          [] OTHER -> w

KnownEvents == {1, 2, 3, 4, 5, 8}
ReadingEvents == {1, 4, 5, 8}
PushPayloads == { << >> } \cup { << c >> : c \in 0..9 }

\* the "data" listener of the push-events characteristic
PushEvent(data) ==
    /\ eventTypeOf(data) \in ReadingEvents => QueueHasRoom
    /\ Step(handlePushEvent(Begin("pushEvent", 0, eventTypeOf(data)), data))

----------------------------------------------------------------------------
(* Setter calls *)

FreeSlot(c) == calls[c].pc \in {"idle", "done"}

\* requested temperatures in 0.001 degrees: 10, 55.455 and 70 degrees
TempInputs == {10000, 55455, 70000}

Orange == [r |-> 255, g |-> 147, b |-> 41, a |-> 255]
Dim == [r |-> 255, g |-> 147, b |-> 41, a |-> 0]
Blue == [r |-> 0, g |-> 0, b |-> 255, a |-> 255]
ColorInputs == {Orange, Dim, Blue}

SetTargetTemp(c, temp) ==
    /\ FreeSlot(c)
    /\ QueueHasRoom
    /\ Step(setter(Begin("setTargetTemp", c, temp), c,
                   [NoCall EXCEPT !.fn = "setTargetTemp", !.temp = temp]))

SetTemperatureUnit(c, unit) ==
    /\ FreeSlot(c)
    /\ QueueHasRoom
    /\ Step(setter(Begin("setTemperatureUnit", c, unit), c,
                   [NoCall EXCEPT !.fn = "setTemperatureUnit",
                                  !.unit = unit]))

SetLedColor(c, color) ==
    /\ FreeSlot(c)
    /\ QueueHasRoom
    /\ Step(setter(Begin("setLedColor", c, 0), c,
                   [NoCall EXCEPT !.fn = "setLedColor", !.color = color]))

----------------------------------------------------------------------------
(* Specification of a live session: the state connect() leaves behind when *)
(* every step of the setup succeeded, then polls, push events, setters,    *)
(* changes on the mug itself, and the end of the session                   *)

\* a mug in use: 52.10 now, heating, battery 80, LED orange
Device1 ==
    [name |-> << "M", "u", "g", "NUL" >>, current |-> writeUInt16LE(5210),
     target |-> writeUInt16LE(5500), unit |-> << Celsius >>,
     battery |-> << 80, 0 >>, liquid |-> << 5 >>,
     color |-> << 255, 147, 41, 255 >>, applies |-> TRUE]

\* targets the mug can hold by itself; its own range starts at 48.90
DeviceTargets == {5500, 4890}

SessionDevices ==
    { [Device1 EXCEPT !.target = writeUInt16LE(t), !.applies = a] :
        t \in DeviceTargets, a \in BOOLEAN }

\* MugState after readInitialValues read every field of dev
mirror(dev) ==
    [connected |-> TRUE, batteryLevel |-> dev.battery[1],
     isCharging |-> (dev.battery[2] = 1),
     currentTemp |-> readUInt16LE(dev.current),
     targetTemp |-> readUInt16LE(dev.target),
     liquidState |-> dev.liquid[1], temperatureUnit |-> dev.unit[1],
     color |-> [r |-> dev.color[1], g |-> dev.color[2],
                b |-> dev.color[3], a |-> dev.color[4]],
     mugName |-> trim(stripNul(dev.name))]

\* the state in which the first connect() of a run has just resolved
SessionOf(dev) ==
    /\ nobleState = "poweredOn"
    /\ scanActive = FALSE
    /\ scanCall = "resolved"
    /\ peripheral = [id |-> "mug", name |-> AdvertisedName]
    /\ characteristics = Chars
    /\ isConnected = TRUE
    /\ pollInterval = TRUE
    /\ timers = 1
    /\ state = mirror(dev)
    /\ disc = [pc |-> "idle", p |-> [id |-> "mug", name |-> AdvertisedName]]
    /\ cwr = [NoRun EXCEPT !.pc = "succeeded", !.attempt = 1, !.started = 1]
    /\ att = [k \in 1..maxRetries |->
                IF k = 1
                THEN [NoAttempt EXCEPT !.link = "done",
                                       !.promise = "resolved",
                                       !.pc = "finished"]
                ELSE NoAttempt]
    /\ reqs = << >>
    /\ linkUp = TRUE
    /\ discHandlers = 1
    /\ discCall = "none"
    /\ repair = "none"
    /\ device = dev
    /\ calls = [c \in CallSlots |-> NoCall]
    /\ codec = NoCodec
    /\ snap = NoSnapshots
    /\ mock = MockOf(DEFAULT_CONFIG)
    /\ op = [name |-> "readDone", id |-> 1, x |-> 0, who |-> "init",
             settled |-> 0, err |-> "none", cancel |-> "none",
             done |-> "none", uuid |-> "LED_COLOR", got |-> "data",
             arg |-> << >>]
    /\ emitted = << [ev |-> "stateChange", st |-> mirror(dev)],
                    [ev |-> "connected"],
                    [ev |-> "stateChange", st |-> mirror(dev)] >>

SessionInit == \E dev \in SessionDevices : SessionOf(dev)

\* the mug changes by itself: it warms up, or its owner sets a target on it
CurrentSteps == {5210, 5300}

\* bytes a firmware can report for the liquid state and the unit, known to
\* LiquidState / TemperatureUnit or not
LiquidBytes == {3, 6}
UnitBytes == {Fahrenheit, 2}

DeviceChange(field, value) ==
    /\ linkUp
    /\ LET w0 == Begin("deviceChange", 0, value)
       IN  CASE field = "current" ->
                  /\ value \in CurrentSteps
                  /\ device.current # writeUInt16LE(value)
                  /\ Step([w0 EXCEPT !.device.current = writeUInt16LE(value)])
             [] field = "target" ->
                  /\ value \in DeviceTargets
                  /\ device.target # writeUInt16LE(value)
                  /\ Step([w0 EXCEPT !.device.target = writeUInt16LE(value)])
             [] field = "liquid" ->
                  /\ value \in LiquidBytes
                  /\ device.liquid # << value >>
                  /\ Step([w0 EXCEPT !.device.liquid = << value >>])
             [] field = "unit" ->
                  /\ value \in UnitBytes
                  /\ device.unit # << value >>
                  /\ Step([w0 EXCEPT !.device.unit = << value >>])

\* polls, push events and the end of the session; no setter is called
NextSession ==
    \/ PollTick
    \/ \E data \in PushPayloads : PushEvent(data)
    \/ \E outcome \in {"data", "short", "error"} : ReadDone(outcome)
    \/ RequestDropped
    \/ \E field \in {"current", "target"},
          value \in CurrentSteps \cup DeviceTargets :
          DeviceChange(field, value)
    \/ DisconnectEvent
    \/ Disconnect

SpecSession == SessionInit /\ [][NextSession]_vars

\* setter calls against a mug that applies writes or ignores them; no poll
\* tick and no push event is delivered
NextSetters ==
    \/ \E c \in CallIds, temp \in TempInputs : SetTargetTemp(c, temp)
    \/ \E c \in CallIds, unit \in {Celsius, Fahrenheit} :
          SetTemperatureUnit(c, unit)
    \/ \E c \in CallIds, color \in ColorInputs : SetLedColor(c, color)
    \/ \E outcome \in {"data", "short", "error"} : ReadDone(outcome)
    \/ \E ok \in BOOLEAN : WriteDone(ok)
    \/ RequestDropped
    \/ \E value \in DeviceTargets : DeviceChange("target", value)
    \/ DisconnectEvent

SpecSetters == SessionInit /\ [][NextSetters]_vars

----------------------------------------------------------------------------
(* Specification of the snapshots handed out: a collaborator calls         *)
(* getState() or keeps the object a stateChange listener was given, and    *)
(* assigns to the object it holds, while a session goes on                 *)

FreeHeld(i) == snap.held[i].ref = 0

\* a collaborator calls getState(), lines 655-657, and keeps the result
GetStateCall(i) ==
    /\ FreeHeld(i)
    /\ LET w0 == Begin("getState", i, 0)
       IN  Step([w0 EXCEPT !.snap.held[i] =
                              [ref |-> w0.snap.ref, st |-> getState(w0)]])

\* a stateChange listener keeps the object emitState (lines 659-661) handed
\* it during the last step
KeepDelivered(i) ==
    /\ FreeHeld(i)
    /\ \E n \in 1..Len(emitted) :
          /\ emitted[n].ev = "stateChange"
          /\ snap' = [snap EXCEPT !.held[i] =
                         [ref |-> snap.ref, st |-> emitted[n].st]]
    /\ UNCHANGED << nobleState, scanActive, scanCall, peripheral,
                    characteristics, isConnected, pollInterval, timers, state,
                    disc, cwr, att, reqs, linkUp, discHandlers, discCall,
                    repair, device, calls, codec, mock, op, emitted >>

\* the collaborator lets go of a snapshot
Release(i) ==
    /\ ~FreeHeld(i)
    /\ Step([Begin("release", i, 0) EXCEPT !.snap.held[i] = NoSnapshot])

\* snapshot.batteryLevel = v: an assignment to a field of the copy
MutateSnapshot(i, v) ==
    /\ ~FreeHeld(i)
    /\ snap.held[i].st.batteryLevel # v
    /\ Step([Begin("mutateSnapshot", i, v) EXCEPT
                !.snap.held[i].st.batteryLevel = v])

\* snapshot.color.r = v: an assignment to a field of the object the copy's
\* color field refers to; every MugState that refers to this object,
\* this.state included, shows the new value
MutateSnapshotColor(i, v) ==
    /\ ~FreeHeld(i)
    /\ snap.held[i].st.color.r # v
    /\ LET w0 == Begin("mutateSnapshotColor", i, v)
           o  == snap.held[i].ref
       IN  Step([w0 EXCEPT
                   !.snap.held = [j \in 1..MaxHeld |->
                                    IF @[j].ref = o
                                    THEN [@[j] EXCEPT !.st.color.r = v]
                                    ELSE @[j]],
                   !.state.color.r = IF w0.snap.ref = o THEN v ELSE @])

NextSnapshot ==
    \/ \E i \in 1..MaxHeld : GetStateCall(i)
    \/ \E i \in 1..MaxHeld : KeepDelivered(i)
    \/ \E i \in 1..MaxHeld : Release(i)
    \/ \E i \in 1..MaxHeld : MutateSnapshot(i, 1)
    \/ \E i \in 1..MaxHeld : MutateSnapshotColor(i, 0)
    \/ \E c \in CallIds : SetLedColor(c, Blue)
    \/ WriteDone(TRUE)
    \/ ReadDone("data")
    \/ PollTick
    \/ DeviceChange("current", 5300)

SpecSnapshot == SessionInit /\ [][NextSnapshot]_vars

----------------------------------------------------------------------------
(* Specification of a first connection followed by setter calls: the mug   *)
(* is found, every step of the setup succeeds, and once connect() has      *)
(* resolved the user calls the setters, on a mug that applies writes or on *)
(* one that ignores them                                                   *)

InitWrites ==
    /\ Constructed
    /\ mock = MockOf(DEFAULT_CONFIG)
    /\ codec = NoCodec
    /\ device \in { [Device1 EXCEPT !.applies = a] : a \in BOOLEAN }

NextWrites ==
    \/ (Quiet /\ AdapterStateChange("poweredOn"))
    \/ (Quiet /\ ~scanActive /\ cwr.pc = "idle" /\ StartScanning)
    \/ ScanStarted(TRUE)
    \/ (cwr.pc = "idle" /\ Discover(AdvertisedName))
    \/ StopScanDone
    \/ SettleDone
    \/ \E k \in Attempts : att[k].promise = "pending" /\ LinkCallback(k, TRUE)
    \/ \E k \in Attempts : DiscoverServicesDone(k, "found")
    \/ \E k \in Attempts, found \in DiscoverableSets :
          DiscoverCharacteristicsDone(k, TRUE, found)
    \/ \E k \in Attempts : PairDelayDone(k)
    \/ \E k \in Attempts : SubscribeDone(k, TRUE)
    \/ \E outcome \in {"data", "error"} : ReadDone(outcome)
    \/ WriteDone(TRUE)
    \/ \E c \in CallIds, temp \in TempInputs :
          cwr.pc = "succeeded" /\ SetTargetTemp(c, temp)
    \/ \E c \in CallIds, unit \in {Celsius, Fahrenheit} :
          cwr.pc = "succeeded" /\ SetTemperatureUnit(c, unit)
    \/ \E c \in CallIds, color \in ColorInputs :
          cwr.pc = "succeeded" /\ SetLedColor(c, color)

SpecWrites == InitWrites /\ [][NextWrites]_vars

----------------------------------------------------------------------------
(* Specification of the field readers during a session: the mug reports    *)
(* bytes the enums know and bytes they do not, reads are answered in full, *)
(* one byte short, or with an error, and the unit setter re-reads the unit *)

NextFields ==
    \/ PollTick
    \/ \E code \in ReadingEvents : PushEvent(<< code >>)
    \/ \E outcome \in {"data", "short", "error"} : ReadDone(outcome)
    \/ WriteDone(TRUE)
    \/ \E value \in LiquidBytes : DeviceChange("liquid", value)
    \/ \E value \in UnitBytes : DeviceChange("unit", value)
    \/ \E c \in CallIds : SetTemperatureUnit(c, Fahrenheit)
    \/ DisconnectEvent

SpecFields == SessionInit /\ [][NextFields]_vars

----------------------------------------------------------------------------
(* Specification of polling over whole connections: the mug is found and   *)
(* set up, the link may drop at any point, the user may scan again, and    *)
(* every live poll timer ticks                                             *)

NextPolling ==
    \/ (Quiet /\ AdapterStateChange("poweredOn"))
    \/ (Quiet /\ ~scanActive /\ StartScanning)
    \/ ScanStarted(TRUE)
    \/ Discover(AdvertisedName)
    \/ StopScanDone
    \/ SettleDone
    \/ \E k \in Attempts : att[k].promise = "pending" /\ LinkCallback(k, TRUE)
    \/ \E k \in Attempts : DiscoverServicesDone(k, "found")
    \/ \E k \in Attempts : DiscoverCharacteristicsDone(k, TRUE, Chars)
    \/ \E k \in Attempts : PairDelayDone(k)
    \/ \E k \in Attempts : SubscribeDone(k, TRUE)
    \/ \E outcome \in {"data", "error"} : ReadDone(outcome)
    \/ RequestDropped
    \/ PollTick
    \/ \E code \in {5, 8} : PushEvent(<< code >>)
    \/ DisconnectEvent

SpecPolling == Init /\ [][NextPolling]_vars

----------------------------------------------------------------------------
----------------------------------------------------------------------------
(* MockBluetoothManager: its methods and its timers *)

mockEmitState(w) == emit(w, [ev |-> "stateChange", st |-> w.mock.state])

mockStartScanning(w) ==
    [emit(w, [ev |-> "scanning", on |-> TRUE]) EXCEPT !.mock.scan = "searching"]

\* the timer of scanDelay
mockFound(w) ==
    [emit(emit(w, [ev |-> "mugFound", name |-> MockMugName]),
          [ev |-> "scanning", on |-> FALSE]) EXCEPT !.mock.scan = "found"]

\* the timer of connectionDelay: connect(), with startSimulation
mockConnect(w) ==
    mockEmitState(emit([w EXCEPT !.mock.isConnected = TRUE,
                                 !.mock.state.connected = TRUE,
                                 !.mock.state.mugName = MockMugName,
                                 !.mock.sim = TRUE,
                                 !.mock.scan = "idle"],
                       [ev |-> "connected"]))

\* updateSimulation without the else branch of lines 151-157: the liquid
\* state is never set to StableTemperature
updateSimulation_NeverStable(w, deltaSeconds) ==
    LET st == w.mock.state
        tempDiff == st.targetTemp - st.currentTemp
        maxChange == w.mock.config.tempChangeRate * deltaSeconds
        filled == st.liquidState # EmptyLiquid
        moving == filled /\ Abs(tempDiff) > StableBand
        change == Sign(tempDiff) * Min(Abs(tempDiff), maxChange)
        temp == IF moving
                THEN 10 * roundHundredths(st.currentTemp + change)
                ELSE st.currentTemp
        liquid == IF ~filled THEN st.liquidState
                  ELSE IF ~moving THEN st.liquidState
                  ELSE IF tempDiff > DirectionBand THEN Heating
                  ELSE IF tempDiff < -DirectionBand THEN Cooling
                  ELSE st.liquidState
        battery == IF st.isCharging
                   THEN Min(FullBattery, st.batteryLevel
                                + BATTERY_CHARGE_RATE * deltaSeconds)
                   ELSE IF liquid = Heating
                   THEN Max(0, st.batteryLevel
                                - BATTERY_DRAIN_RATE_HEATING * deltaSeconds)
                   ELSE IF liquid = StableTemperature
                   THEN Max(0, st.batteryLevel
                             - BATTERY_DRAIN_RATE_MAINTAINING * deltaSeconds)
                   ELSE st.batteryLevel
        stateChanged == \/ moving
                        \/ filled /\ liquid # st.liquidState
                        \/ st.isCharging
                        \/ liquid \in {Heating, StableTemperature}
        w1 == [w EXCEPT !.mock.state.currentTemp = temp,
                        !.mock.state.liquidState = liquid,
                        !.mock.state.batteryLevel = battery]
    IN  IF stateChanged THEN mockEmitState(w1) ELSE w1

\* updateSimulation, lines 127-181
updateSimulation(w, deltaSeconds) ==
    LET st == w.mock.state
        tempDiff == st.targetTemp - st.currentTemp
        maxChange == w.mock.config.tempChangeRate * deltaSeconds
        filled == st.liquidState # EmptyLiquid
        moving == filled /\ Abs(tempDiff) > StableBand
        change == Sign(tempDiff) * Min(Abs(tempDiff), maxChange)
        temp == IF moving
                THEN 10 * roundHundredths(st.currentTemp + change)
                ELSE st.currentTemp
        liquid == IF ~filled THEN st.liquidState
                  ELSE IF ~moving THEN StableTemperature
                  ELSE IF tempDiff > DirectionBand THEN Heating
                  ELSE IF tempDiff < -DirectionBand THEN Cooling
                  ELSE st.liquidState
        battery == IF st.isCharging
                   THEN Min(FullBattery, st.batteryLevel
                                + BATTERY_CHARGE_RATE * deltaSeconds)
                   ELSE IF liquid = Heating
                   THEN Max(0, st.batteryLevel
                                - BATTERY_DRAIN_RATE_HEATING * deltaSeconds)
                   ELSE IF liquid = StableTemperature
                   THEN Max(0, st.batteryLevel
                             - BATTERY_DRAIN_RATE_MAINTAINING * deltaSeconds)
                   ELSE st.batteryLevel
        stateChanged == \/ moving
                        \/ filled /\ liquid # st.liquidState
                        \/ st.isCharging
                        \/ liquid \in {Heating, StableTemperature}
        w1 == [w EXCEPT !.mock.state.currentTemp = temp,
                        !.mock.state.liquidState = liquid,
                        !.mock.state.batteryLevel = battery]
    IN  IF stateChanged THEN mockEmitState(w1) ELSE w1

\* the callback of setInterval in startSimulation, lines 116-124
simulationTick(w, deltaSeconds) ==
    IF ~w.mock.isConnected THEN w ELSE updateSimulation(w, deltaSeconds)

mockSetTargetTemp(w, temp) ==
    mockEmitState([w EXCEPT !.mock.state.targetTemp = clampTemp(temp)])

mockSetTemperatureUnit(w, unit) ==
    mockEmitState([w EXCEPT !.mock.state.temperatureUnit = unit])

mockSetLedColor(w, color) ==
    mockEmitState([w EXCEPT !.mock.state.color = color])

mockDisconnect(w) ==
    LET w1 == [w EXCEPT !.mock.sim = FALSE]
    IN  IF w.mock.isConnected
        THEN mockEmitState(emit([w1 EXCEPT !.mock.isConnected = FALSE,
                                           !.mock.state.connected = FALSE],
                                [ev |-> "disconnected"]))
        ELSE w1

simulateStartCharging(w) ==
    mockEmitState([w EXCEPT !.mock.state.isCharging = TRUE])

simulateStopCharging(w) ==
    mockEmitState([w EXCEPT !.mock.state.isCharging = FALSE])

simulateEmpty(w) ==
    mockEmitState([w EXCEPT !.mock.state.liquidState = EmptyLiquid,
                            !.mock.state.currentTemp = 0])

MockStartScanning ==
    /\ mock.scan = "idle" /\ ~mock.isConnected
    /\ Step(mockStartScanning(Begin("mock.startScanning", 0, 0)))

MockFound ==
    /\ mock.scan = "searching"
    /\ Step(mockFound(Begin("mock.found", 0, 0)))

MockConnect ==
    /\ mock.scan = "found"
    /\ Step(mockConnect(Begin("mock.connect", 0, 0)))

SimulationTick(deltaSeconds) ==
    /\ mock.sim
    /\ Step(simulationTick(Begin("mock.tick", 0, deltaSeconds), deltaSeconds))

MockSetTargetTemp(temp) ==
    Step(mockSetTargetTemp(Begin("mock.setTargetTemp", 0, temp), temp))

MockSetTemperatureUnit(unit) ==
    Step(mockSetTemperatureUnit(Begin("mock.setTemperatureUnit", 0, unit),
                                unit))

MockSetLedColor(color) ==
    Step(mockSetLedColor([Begin("mock.setLedColor", 0, 0)
                             EXCEPT !.op.arg = << color >>], color))

MockDisconnect ==
    /\ mock.isConnected \/ mock.sim
    /\ Step(mockDisconnect(Begin("mock.disconnect", 0, 0)))

SimulateStartCharging ==
    /\ ~mock.state.isCharging
    /\ Step(simulateStartCharging(Begin("mock.simulateStartCharging", 0, 0)))

SimulateStopCharging ==
    /\ mock.state.isCharging
    /\ Step(simulateStopCharging(Begin("mock.simulateStopCharging", 0, 0)))

SimulateEmpty ==
    /\ mock.state.liquidState # EmptyLiquid
    /\ Step(simulateEmpty(Begin("mock.simulateEmpty", 0, 0)))

----------------------------------------------------------------------------
(* Specification of the setter contract: the real manager in a live        *)
(* session and the mock manager are given the same setter calls, the mock  *)
(* one right after the real one has settled                                *)

\* the real manager has just settled a call of fn
JustSettled(fn) == op.settled \in CallIds /\ calls[op.settled].fn = fn

NextContract ==
    \/ \E c \in CallIds, temp \in TempInputs : SetTargetTemp(c, temp)
    \/ \E c \in CallIds, unit \in {Celsius, Fahrenheit} :
          SetTemperatureUnit(c, unit)
    \/ \E c \in CallIds, color \in ColorInputs : SetLedColor(c, color)
    \/ \E outcome \in {"data", "short", "error"} : ReadDone(outcome)
    \/ \E ok \in BOOLEAN : WriteDone(ok)
    \/ (JustSettled("setTargetTemp")
           /\ MockSetTargetTemp(calls[op.settled].temp))
    \/ (JustSettled("setTemperatureUnit")
           /\ MockSetTemperatureUnit(calls[op.settled].unit))
    \/ (JustSettled("setLedColor")
           /\ MockSetLedColor(calls[op.settled].color))

SpecContract == SessionInit /\ [][NextContract]_vars

----------------------------------------------------------------------------
(* Specification of the simulation of mock mode: a mock manager built from *)
(* a configuration is scanned for, connects and is ticked by its interval  *)
(* timer; its user may empty the mug or disconnect. The timers of          *)
(* setTimeout and setInterval fire.                                        *)

\* battery level and charger at the start: flat or full, or close to it
BatteryStarts ==
    { << 0, FALSE >>, << 100, FALSE >>, << FullBattery, TRUE >>,
      << FullBattery - 100, TRUE >> }

\* start and target temperatures: 54, 54.95 and 56 degrees; 55 and 55.455
CurrentStarts == {54000, 54950, 56000}
TargetStarts == {55000, 55455}

\* degrees per second: 0.5 (the default), 0.01 and 0.002
ChangeRates == {500, 10, 2}

\* seconds between two ticks of the interval timer
Deltas == {1, 2}

MockConfigs ==
    { [DEFAULT_CONFIG EXCEPT !.initialBattery = b[1],
                             !.initiallyCharging = b[2],
                             !.initialCurrentTemp = c,
                             !.initialTargetTemp = t,
                             !.tempChangeRate = r] :
        b \in BatteryStarts, c \in CurrentStarts, t \in TargetStarts,
        r \in ChangeRates }

InitSimulation ==
    /\ Constructed
    /\ device = Device0
    /\ codec = NoCodec
    /\ mock \in { MockOf(config) : config \in MockConfigs }

TimerTick == \E deltaSeconds \in Deltas : SimulationTick(deltaSeconds)

NextSimulation ==
    \/ MockStartScanning
    \/ MockFound
    \/ MockConnect
    \/ TimerTick
    \/ SimulateEmpty
    \/ MockDisconnect

SpecSimulation ==
    /\ InitSimulation
    /\ [][NextSimulation]_vars
    /\ WF_vars(MockFound)
    /\ WF_vars(MockConnect)
    /\ WF_vars(TimerTick)

----------------------------------------------------------------------------
(* Specification of late link callbacks: as the lifecycle, but the adapter *)
(* may invoke the callback of peripheral.connect at any time after the     *)
(* call, also after the connection timeout rejected the attempt. One run   *)
(* of connectWithRetry is followed; the mug offers every characteristic    *)
(* and answers every read.                                                 *)

NextLate ==
    \/ (Quiet /\ AdapterStateChange("poweredOn"))
    \/ (Quiet /\ ~scanActive /\ cwr.started = 0 /\ StartScanning)
    \/ ScanStarted(TRUE)
    \/ Discover(AdvertisedName)
    \/ StopScanDone
    \/ SettleDone
    \/ BackoffDone
    \/ \E k \in Attempts : ConnectTimeout(k)
    \/ \E k \in Attempts, ok \in BOOLEAN : LinkCallback(k, ok)
    \/ \E k \in Attempts : DiscoverServicesDone(k, "found")
    \/ \E k \in Attempts : DiscoverCharacteristicsDone(k, TRUE, Chars)
    \/ \E k \in Attempts : PairDelayDone(k)
    \/ \E k \in Attempts : SubscribeDone(k, TRUE)
    \/ ReadDone("data")
    \/ DisconnectEvent

SpecLate == Init /\ [][NextLate]_vars

----------------------------------------------------------------------------
(* Specification of one connectWithRetry run under fair timers: the timers *)
(* of setTimeout (settle delay, connection timeout, backoff, pairing       *)
(* delay) fire; the adapter invokes a callback or never does.              *)

NextRun ==
    \/ (Quiet /\ AdapterStateChange("poweredOn"))
    \/ (Quiet /\ ~scanActive /\ cwr.started = 0 /\ StartScanning)
    \/ ScanStarted(TRUE)
    \/ Discover(AdvertisedName)
    \/ StopScanDone
    \/ SettleDone
    \/ BackoffDone
    \/ \E k \in Attempts : ConnectTimeout(k)
    \/ \E k \in Attempts, ok \in BOOLEAN :
          att[k].promise = "pending" /\ LinkCallback(k, ok)
    \/ \E k \in Attempts, outcome \in {"none", "found"} :
          DiscoverServicesDone(k, outcome)
    \/ \E k \in Attempts : DiscoverCharacteristicsDone(k, TRUE, Chars)
    \/ \E k \in Attempts : PairDelayDone(k)
    \/ \E k \in Attempts : SubscribeDone(k, TRUE)
    \/ ReadDone("data")

SpecRun ==
    /\ Init
    /\ [][NextRun]_vars
    /\ WF_vars(SettleDone)
    /\ WF_vars(BackoffDone)
    /\ WF_vars(\E k \in Attempts : ConnectTimeout(k))
    /\ WF_vars(\E k \in Attempts : PairDelayDone(k))

----------------------------------------------------------------------------
(* Specification of overlapping setter calls: a live session with a mug    *)
(* that applies every write and answers every read; the user interface     *)
(* issues setTargetTemp calls without waiting for the one before           *)

InitOverlap == \E dev \in SessionDevices : dev.applies /\ SessionOf(dev)

NextOverlap ==
    \/ \E c \in CallSlots, temp \in TempInputs : SetTargetTemp(c, temp)
    \/ ReadDone("data")
    \/ WriteDone(TRUE)

SpecOverlap == InitOverlap /\ [][NextOverlap]_vars

----------------------------------------------------------------------------
(* Specification of the temperature codec: every uint16 is written the way *)
(* setTargetTemp writes it and read back the way readTargetTemp reads it   *)

InitCodec ==
    /\ Constructed
    /\ mock = MockOf(DEFAULT_CONFIG)
    /\ device = Device0
    /\ codec \in { [NoCodec EXCEPT !.pc = "input", !.n = n] :
                     n \in 0..UInt16Max }

\* buffer.writeUInt16LE(value, 0), line 592
Encode ==
    /\ codec.pc = "input"
    /\ Step([Begin("writeUInt16LE", 0, codec.n) EXCEPT
                !.codec.pc = "encoded",
                !.codec.buf = writeUInt16LE(codec.n)])

\* data.readUInt16LE(0), line 531
Decode ==
    /\ codec.pc = "encoded"
    /\ Step([Begin("readUInt16LE", 0, codec.n) EXCEPT
                !.codec.pc = "decoded",
                !.codec.out = readUInt16LE(codec.buf)])

NextCodec == Encode \/ Decode

SpecCodec == InitCodec /\ [][NextCodec]_vars

----------------------------------------------------------------------------
(* Properties *)

HasEvent(name) == \E i \in 1..Len(emitted) : emitted[i].ev = name

ConnectionFailed == [ev |-> "error", kind |-> "ConnectionFailed"]

FailuresEmitted == {i \in 1..Len(emitted) : emitted[i] = ConnectionFailed}

\* C1: the connect() attempts of a connectWithRetry run never overlap; while
\* attempts remain no error has been emitted; when all three attempts have
\* failed exactly three were made and exactly one error was emitted, in the
\* step that ended the last one; when an attempt succeeded no later attempt
\* was made and connectWithRetry emitted no error.
C1_AttemptsSequentialOneError ==
    /\ Cardinality({k \in Attempts : att[k].promise = "pending"}) <= 1
    /\ \A k \in Attempts :
          att[k].promise = "pending" =>
              cwr.pc = "connecting" /\ cwr.attempt = k
    /\ cwr.started = cwr.attempt
    /\ cwr.pc \in {"connecting", "backoff"} =>
          cwr.errors = 0 /\ FailuresEmitted = {}
    /\ cwr.pc = "failed" =>
          /\ cwr.started = 3
          /\ cwr.errors = 1
          /\ \A k \in Attempts : att[k].promise = "rejected"
    /\ cwr.pc = "succeeded" =>
          /\ cwr.errors = 0
          /\ FailuresEmitted = {}
          /\ att[cwr.attempt].promise = "resolved"
          /\ \A j \in Attempts : j > cwr.attempt => att[j].promise = "none"
    /\ FailuresEmitted # {} =>
          /\ Cardinality(FailuresEmitted) = 1
          /\ cwr.pc = "failed"
          /\ op.name \in {"connectTimeout", "linkCallback",
                          "discoverServicesDone",
                          "discoverCharacteristicsDone", "subscribeDone",
                          "backoffDone"}
          /\ op.id = maxRetries

C1_Witness == cwr.pc = "failed" /\ cwr.started = 3 /\ FailuresEmitted # {}

\* C2: the wait after failed attempt k < 3 is 2^(k-1) seconds (1 s, then
\* 2 s); attempt k starts after exactly k-1 waits; no wait follows the third
\* failure.
C2_BackoffOneThenTwoSeconds ==
    /\ Len(cwr.waits) <= 2
    /\ \A i \in 1..Len(cwr.waits) :
          cwr.waits[i] = IF i = 1 THEN 1000 ELSE 2000
    /\ cwr.pc = "backoff" =>
          /\ cwr.attempt < maxRetries
          /\ Len(cwr.waits) = cwr.attempt
          /\ cwr.delay = cwr.waits[cwr.attempt]
    /\ cwr.pc = "connecting" =>
          Len(cwr.waits) = cwr.attempt - 1 /\ cwr.delay = 0
    /\ cwr.pc = "failed" => cwr.waits = << 1000, 2000 >> /\ cwr.delay = 0

C2_Witness == cwr.pc = "failed" /\ cwr.waits = << 1000, 2000 >>

\* the clamp of the claim, in 0.001 degrees
Expected(t) == IF t > 63000 THEN 63000 ELSE IF t < 50000 THEN 50000 ELSE t

TargetWrites ==
    {i \in 1..Len(reqs) :
        reqs[i].kind = "write" /\ reqs[i].uuid = "TARGET_TEMP"}

\* C3: when setTargetTemp(t) resolves successfully the stored targetTemp is
\* within 0.5 degrees of clamp(t, 50, 63); a request above 63 writes the
\* bytes of 63.00 and a request below 50 the bytes of 50.00.
C3_TargetWithinHalfDegreeOfClamp ==
    /\ \A c \in CallIds :
          (op.settled = c /\ calls[c].fn = "setTargetTemp"
             /\ calls[c].result = "ok") =>
              Abs(state.targetTemp * 10 - Expected(calls[c].temp)) <= 500
    /\ \A i \in TargetWrites :
          LET t == calls[reqs[i].id].temp
          IN  /\ t > 63000 => reqs[i].data = << 156, 24 >>
              /\ t < 50000 => reqs[i].data = << 136, 19 >>
              /\ reqs[i].data[1] + 256 * reqs[i].data[2]
                    = (Expected(t) + 5) \div 10

C3_Witness ==
    /\ op.settled = 1
    /\ calls[1].fn = "setTargetTemp"
    /\ calls[1].temp = 70000
    /\ calls[1].result = "ok"
    /\ state.targetTemp = 6300

SameRGB(a, b) == a.r = b.r /\ a.g = b.g /\ a.b = b.b

\* a setLedColor call settled in this step after its write was acknowledged
ColorCallSettled(c) ==
    /\ op.settled = c
    /\ calls[c].fn = "setLedColor"
    /\ calls[c].reread # "none"

C5_AppliedColorIsReflected ==
    \A c \in CallIds :
        (ColorCallSettled(c) /\ device.applies /\ calls[c].alone
           /\ calls[c].reread = "data") =>
            /\ calls[c].result = "ok"
            /\ getState(World).color = calls[c].color

C5_Witness ==
    /\ ColorCallSettled(1)
    /\ device.applies
    /\ calls[1].reread = "data"
    /\ calls[1].color = Blue
    /\ calls[1].result = "ok"
    /\ state.color = Blue

\* C6 as stated: once a disconnect() that tore the session down has
\* resolved, neither a poll tick nor the completion of a read the poll had
\* in flight emits stateChange.
C6_NoPollStateChangeAfterDisconnect ==
    (/\ discCall = "resolved"
     /\ \/ op.name = "pollTick"
        \/ op.name = "readDone" /\ op.who \in {"poll1", "poll2"})
    => ~HasEvent("stateChange")

\* C7: a push notification whose first byte is not a known event code, or
\* whose payload is empty, changes no DeviceState field, issues no read,
\* emits nothing and leaves every other part of the manager as it was.
C7_UnknownPushEventIgnored ==
    [][ (op'.name = "pushEvent" /\ op'.x \notin KnownEvents) =>
            /\ state' = state
            /\ reqs' = reqs
            /\ emitted' = << >>
            /\ characteristics' = characteristics
            /\ isConnected' = isConnected
            /\ pollInterval' = pollInterval
            /\ timers' = timers
            /\ peripheral' = peripheral
            /\ calls' = calls
            /\ op'.settled = 0 ]_vars

C7_Witness ==
    /\ op.name = "pushEvent"
    /\ op.x = -1
    /\ reqs # << >>
    /\ emitted = << >>

\* C8: writing n (0..65535) as a little-endian uint16 and reading it back
\* yields n; both bytes fit a byte; 5500 (55.00 degrees) is written as the
\* bytes 0x7C, 0x15.
C8_CodecRoundTrip ==
    /\ codec.pc \in {"encoded", "decoded"} =>
          /\ codec.buf[1] \in 0..255
          /\ codec.buf[2] \in 0..255
          /\ codec.buf[1] = codec.n % 256
          /\ codec.n = 5500 => codec.buf = << 124, 21 >>
    /\ codec.pc = "decoded" => codec.out = codec.n

C8_Witness ==
    codec.pc = "decoded" /\ codec.n = 5500 /\ codec.buf = << 124, 21 >>
      /\ codec.out = 5500

\* C9 as stated: the stored targetTemp always lies within [50, 63].
C9_Original == state.targetTemp \in 5000..6300

\* C9 amended: the stored targetTemp is not clamped; it is the value the
\* device last reported. What lies within [50, 63] is every value
\* setTargetTemp writes, so the stored targetTemp is always a value the mug
\* took by itself or a clamped value written to it.
C9_WritesClampedStateMirrorsDevice ==
    /\ \A i \in TargetWrites :
          reqs[i].data[1] + 256 * reqs[i].data[2] \in 5000..6300
    /\ state.targetTemp \in DeviceTargets \cup 5000..6300
    /\ readUInt16LE(device.target) \in DeviceTargets \cup 5000..6300

C9_Witness ==
    /\ TargetWrites # {}
    /\ calls[1].temp = 70000
    /\ state.targetTemp = 4890

\* C10 as stated: a connect attempt whose setup saw the peripheral
\* disconnect neither finishes the setup nor emits connected, and leaves no
\* poll timer behind.
C10_DropDuringSetupStopsAttempt ==
    \A k \in Attempts :
        att[k].dropped =>
            /\ att[k].pc # "finished"
            /\ ~(op.id = k /\ HasEvent("connected"))

\* the order of the setup steps: the positions connect() call k may move
\* between
SetupOrder ==
    { << "none", "link" >>,
      << "link", "discSvc" >>, << "link", "failed" >>, << "link", "threw" >>,
      << "discSvc", "discChars" >>, << "discSvc", "failed" >>,
      << "discChars", "pairing" >>, << "discChars", "pairDelay" >>,
      << "discChars", "failed" >>,
      << "pairing", "pairDelay" >>,
      << "pairDelay", "subscribe" >>, << "pairDelay", "initReads" >>,
      << "pairDelay", "finished" >>,
      << "subscribe", "initReads" >>, << "subscribe", "finished" >>,
      << "subscribe", "failed" >>,
      << "initReads", "finished" >> }

\* the steps in which discovery or the subscription can fail
AbortingSteps == {"discoverServicesDone", "discoverCharacteristicsDone",
                  "subscribeDone"}

Teardown == << [ev |-> "disconnected"],
               [ev |-> "stateChange", st |-> state] >>

C12_Original ==
    [][ /\ (~state.connected /\ state'.connected) =>
              (op'.id \in Attempts /\ att'[op'.id].pc = "finished")
        /\ \A i \in 1..Len(emitted') :
              (/\ emitted'[i].ev = "stateChange"
               /\ emitted'[i].st.connected
               /\ op'.id \in Attempts
               /\ att[op'.id].pc \in SetupPcs) =>
                  \E j \in 1..(i - 1) : emitted'[j].ev = "connected" ]_vars

\* C12 amended: what comes last is the connected event: it is emitted only
\* by the step that ends the setup, after every initial read was answered
\* and the poll timer was started, and is followed by one stateChange.
\* DeviceState.connected is set by the link callback, before discovery, and
\* every stateChange snapshot carries the flag as it stands, so the
\* broadcasts of the initial reads already carry connected = true.
C12_ConnectedEventIsLast ==
    /\ HasEvent("connected") =>
          /\ op.id \in Attempts
          /\ att[op.id].pc = "finished"
          /\ att[op.id].pending = 0
          /\ \A i \in 1..Len(reqs) :
                ~(reqs[i].who = "init" /\ reqs[i].id = op.id)
          /\ pollInterval /\ timers >= 1
          /\ Len(emitted) >= 2
          /\ emitted[Len(emitted) - 1] = [ev |-> "connected"]
          /\ emitted[Len(emitted)] = [ev |-> "stateChange", st |-> state]
    /\ (op.name = "linkCallback" /\ op.x = 1) =>
          /\ state.connected /\ isConnected
          /\ emitted = << >>
          /\ att[op.id].pc \in {"discSvc", "threw"}
    /\ \A i \in 1..Len(emitted) :
          emitted[i].ev = "stateChange" =>
              emitted[i].st.connected = state.connected

C12_Witness ==
    /\ HasEvent("connected")
    /\ op.name = "readDone" /\ op.who = "init"
    /\ att[op.id].pc = "finished"
    /\ state.connected
    /\ Len(emitted) = 3

\* C13: the connection timeout of connect() call k is live only while its
\* link callback has not run; when it fires it asks the peripheral to
\* disconnect (when a peripheral is held; nothing it throws escapes) and
\* rejects with ConnectionTimeout; the link callback, successful or not,
\* cancels the timeout, and no other step rejects with ConnectionTimeout.
C13_TimeoutRejectsCallbackCancels ==
    /\ \A k \in Attempts :
          /\ att[k].timer =>
                /\ att[k].link = "pending"
                /\ att[k].promise = "pending"
                /\ att[k].pc = "link"
          /\ att[k].link = "done" => ~att[k].timer
    /\ op.name = "connectTimeout" =>
          /\ att[op.id].promise = "rejected"
          /\ att[op.id].link = "pending"
          /\ ~att[op.id].timer
          /\ op.err = "ConnectionTimeout"
          /\ op.cancel = IF peripheral.id = "null" THEN "skipped"
                         ELSE "requested"
    /\ op.name # "connectTimeout" =>
          op.err # "ConnectionTimeout" /\ op.cancel = "none"
    /\ op.name = "linkCallback" =>
          /\ ~att[op.id].timer
          /\ op.err = IF op.x = 1 THEN "none" ELSE "LinkFailed"

C13_Witness ==
    /\ op.name = "connectTimeout"
    /\ op.err = "ConnectionTimeout"
    /\ op.cancel = "requested"
    /\ att[op.id].promise = "rejected"
    /\ cwr.pc = "backoff"

\* the setup of a connect() call of the current run has completed
SetupCompleted == \E k \in Attempts : att[k].pc = "finished"

\* C14 as stated: when a disconnect() called after the setup completed resolves, no
\* poll timer exists, the link is down, the handle table is empty,
\* DeviceState.connected is false, and the step in which the adapter
\* reported the disconnect emitted disconnected followed by a stateChange
\* with connected = false.
C14_DisconnectTearsDown ==
    (op.done = "disconnect" /\ SetupCompleted) =>
        /\ ~pollInterval /\ timers = 0
        /\ ~linkUp
        /\ characteristics = {}
        /\ ~isConnected /\ ~state.connected
        /\ op.name = "disconnectEvent" =>
              /\ Len(emitted) >= 2
              /\ emitted[Len(emitted) - 1] = [ev |-> "disconnected"]
              /\ emitted[Len(emitted)] =
                     [ev |-> "stateChange",
                      st |-> [state EXCEPT !.connected = FALSE]]

\* C15: a teardown, by disconnect() or by the peripheral dropping the link,
\* leaves batteryLevel, isCharging, currentTemp, targetTemp, liquidState,
\* temperatureUnit, color and mugName as they were: calling disconnect()
\* changes no field, and the step in which the adapter reports the
\* disconnect changes connected alone, to false, and empties the handle table.
C15_TeardownKeepsOtherFields ==
    [][ /\ op'.name = "disconnect" => state' = state
        /\ op'.name = "disconnectEvent" =>
              /\ ~(discHandlers > 0 \/ discCall = "pending") =>
                    state' = state
              /\ (discHandlers > 0 \/ discCall = "pending") =>
                    /\ state' = [state EXCEPT !.connected = FALSE]
                    /\ characteristics' = {}
                    /\ emitted'[Len(emitted')] =
                           [ev |-> "stateChange",
                            st |-> [state EXCEPT !.connected = FALSE]] ]_vars

C15_Witness ==
    /\ op.name = "disconnectEvent"
    /\ discCall = "none"
    /\ ~state.connected
    /\ characteristics = {}
    /\ state.currentTemp = 5300
    /\ state.batteryLevel = 80
    /\ state.color = Orange
    /\ state.mugName = << "M", "u", "g" >>

\* C16 as stated: at most one connectWithRetry run is in progress (at most
\* one connect() is awaited) and at most one poll timer is live, whatever
\* advertisements the adapter reports, including one reported while a
\* session is live.
C16_OneRunOnePollTimer ==
    /\ Cardinality({k \in Attempts : att[k].promise = "pending"}) <= 1
    /\ timers <= 1

\* callbacks of the poll interval, the connection timeout and the backoff
TimerSteps == {"pollTick", "connectTimeout", "backoffDone"}

\* C17 as stated: a timer that was pending when disconnect() or
\* forgetAndRepair() completed, and fires next, starts no connect attempt,
\* issues no read, changes no DeviceState field and emits no error.
C17_TimersQuietAfterTeardown ==
    [][ (op.done # "none" /\ op'.name \in TimerSteps) =>
            /\ cwr'.started = cwr.started
            /\ \A k \in Attempts : att'[k].promise = "pending" =>
                                       att[k].promise = "pending"
            /\ reqs' = reqs
            /\ state' = state
            /\ \A i \in 1..Len(emitted') : emitted'[i].ev # "error" ]_vars

\* C18 as stated: when forgetAndRepair() resolves the scan is stopped, the
\* session is down (connected false, no poll timer, empty handle table) and
\* no peripheral is retained (unless an advertisement reported during the
\* call supplied a new one); and while none is retained no link to the
\* peripheral found earlier comes up and the manager does not become
\* connected.
C18_ForgetDropsDeviceAndSession ==
    /\ [](op.done = "forgetAndRepair" =>
             /\ repair = "resolved"
             /\ ~scanActive
             /\ ~isConnected /\ ~state.connected
             /\ ~pollInterval
             /\ characteristics = {}
             /\ \/ peripheral = NoPeripheral
                \/ \* an advertisement reported during the call supplied one
                   op.name = "scanStopped" /\ disc.pc = "settling")
    /\ [][ (repair = "resolved" /\ peripheral = NoPeripheral
              /\ peripheral' = NoPeripheral) =>
               /\ linkUp' => linkUp
               /\ isConnected' => isConnected
               /\ state'.connected => state.connected ]_vars

\* the scanning(true) event, which startScan emits before asking the adapter
ScanAnnounced(es) == \E i \in 1..Len(es) : es[i] = [ev |-> "scanning", on |-> TRUE]

\* C19: a startScanning() made while the adapter is not poweredOn starts no
\* scan and waits; while it waits nothing but an adapter state change moves
\* it; that state change starts the scan if it is poweredOn and otherwise
\* rejects the call with AdapterUnavailable; a rejected call starts no scan
\* on any later state change.
C19_WaitsForOneStateChange ==
    [][ /\ (op'.name = "startScanning" /\ nobleState # "poweredOn") =>
               scanCall' = "waiting" /\ ~ScanAnnounced(emitted')
        /\ (scanCall = "waiting" /\ op'.name # "nobleStateChange") =>
               scanCall' = "waiting" /\ ~ScanAnnounced(emitted')
        /\ (scanCall = "waiting" /\ op'.name = "nobleStateChange") =>
               IF nobleState' = "poweredOn"
               THEN scanCall' = "starting" /\ ScanAnnounced(emitted')
               ELSE /\ scanCall' = "rejected"
                    /\ op'.err = "AdapterUnavailable"
                    /\ ~ScanAnnounced(emitted')
        /\ (scanCall = "rejected" /\ op'.name # "startScanning") =>
               scanCall' = "rejected" /\ ~ScanAnnounced(emitted')
        /\ (~scanActive /\ scanActive') => scanCall = "starting" ]_vars

\* the waiting call was rejected by a state other than poweredOn, and the
\* adapter has since become ready without a scan being started
C19_Witness ==
    /\ scanCall = "rejected"
    /\ nobleState = "poweredOn"
    /\ op.name = "nobleStateChange"
    /\ ~scanActive

\* the number of `error` events among the events of one step
ErrorEvents(es) == Cardinality({i \in 1..Len(es) : es[i].ev = "error"})

\* the promise of startScanning() was rejected in this step
ScanRejected ==
    /\ op.name \in {"nobleStateChange", "scanStarted"}
    /\ scanCall = "rejected"
    /\ op.name = "nobleStateChange" => op.err = "AdapterUnavailable"

\* C20 as stated: a failing operation surfaces at most one error, a rejected
\* promise and an `error` event counting alike; a startScanning() rejected
\* by an adapter state change comes with no `error` event.
C20_OneErrorPerFailure ==
    ErrorEvents(emitted) + (IF ScanRejected THEN 1 ELSE 0) <= 1

\* every MugState object that shares its color object agrees on the color
RefsConsistent ==
    \A i \in 1..MaxHeld :
        /\ snap.held[i].ref = snap.ref => snap.held[i].st.color = state.color
        /\ \A j \in 1..MaxHeld :
              (snap.held[i].ref # 0 /\ snap.held[i].ref = snap.held[j].ref)
                  => snap.held[i].st.color = snap.held[j].st.color

\* C21 as stated: an assignment a collaborator makes to a snapshot it holds,
\* to a field or to a field of its color object, changes neither the
\* manager's state (what a later getState() returns) nor any other snapshot.
C21_SnapshotsAreDefensiveCopies ==
    [][ op'.name \in {"mutateSnapshot", "mutateSnapshotColor"} =>
            /\ state' = state
            /\ \A j \in 1..MaxHeld :
                  j # op'.id => snap'.held[j] = snap.held[j] ]_vars

\* a write of characteristic uuid is among the requests rs
WriteQueued(rs, uuid) ==
    \E i \in 1..Len(rs) : rs[i].kind = "write" /\ rs[i].uuid = uuid

AllZero(data) == \A i \in 1..Len(data) : data[i] = 0

SetterNames == {"setTargetTemp", "setTemperatureUnit", "setLedColor"}

\* the step just taken belongs to the setup pipeline of connect()
SetupStep(o) ==
    \/ o.name \in {"linkCallback", "discoverServicesDone",
                   "discoverCharacteristicsDone", "pairDelayDone",
                   "subscribeDone"}
    \/ o.name = "readDone" /\ o.who \in {"pair", "init"}

DeviceMatches(call, dev) ==
    CASE call.fn = "setTargetTemp" ->
            Abs(readUInt16LE(dev.target) * 10 - clampTemp(call.temp)) <= 500
      [] call.fn = "setTemperatureUnit" -> dev.unit[1] = call.unit
      [] call.fn = "setLedColor" ->
            /\ dev.color[1] = call.color.r
            /\ dev.color[2] = call.color.g
            /\ dev.color[3] = call.color.b
      [] OTHER -> FALSE

\* C24 as stated: a setter whose write was acknowledged resolves
\* successfully only if its re-read returned a value from the mug and that
\* value matches the request; when the re-read returns nothing the setter
\* fails with WriteNotApplied.
C24_SuccessOnlyOnMatchingReread ==
    \A c \in CallIds :
        (op.settled = c /\ calls[c].reread # "none") =>
            /\ calls[c].result = "ok" =>
                  calls[c].reread = "data" /\ DeviceMatches(calls[c], device)
            /\ calls[c].reread \in {"null", "short"} =>
                  calls[c].result = "WriteNotApplied"

\* the characteristic an event code stands for (lines 357-382)
FieldOfEvent(code) ==
    CASE code = 1 -> "BATTERY"
      [] code = 4 -> "TARGET_TEMP"
      [] code = 5 -> "CURRENT_TEMP"
      [] code = 8 -> "LIQUID_STATE"
      [] OTHER -> "none"

\* C25 as stated: every push notification with a code the manager handles
\* hands exactly one read to the adapter, the read of the code's field for
\* the codes 1, 4, 5 and 8.
C25_Original ==
    [][ (op'.name = "pushEvent" /\ op'.x \in KnownEvents) =>
            /\ Len(reqs') = Len(reqs) + 1
            /\ SubSeq(reqs', 1, Len(reqs)) = reqs
            /\ reqs'[Len(reqs')].kind = "read"
            /\ op'.x \in ReadingEvents =>
                  reqs'[Len(reqs')].uuid = FieldOfEvent(op'.x) ]_vars

\* C25 amended: a push notification hands at most one read to the adapter:
\* the codes 1, 4, 5 and 8 exactly one, the read of their own field, when
\* that field is in the handle table, and nothing else; the codes 2 and 3
\* no read: they set isCharging and broadcast the state; no code refreshes
\* several fields.
C25_AtMostOneTargetedRead ==
    [][ op'.name = "pushEvent" =>
            IF op'.x \in ReadingEvents /\ FieldOfEvent(op'.x) \in characteristics
            THEN /\ reqs' = Append(reqs, Request("read", FieldOfEvent(op'.x),
                                                 << >>, "push", 0, 0))
                 /\ state' = state
                 /\ emitted' = << >>
            ELSE /\ reqs' = reqs
                 /\ IF op'.x \in {2, 3}
                    THEN /\ state' = [state EXCEPT !.isCharging = (op'.x = 2)]
                         /\ emitted' = << [ev |-> "stateChange", st |-> state'] >>
                    ELSE state' = state /\ emitted' = << >> ]_vars

\* a temperature event arrived during a session and one read of the current
\* temperature, and nothing else, was handed to the adapter
C25_Witness ==
    /\ op.name = "pushEvent" /\ op.x = 5
    /\ isConnected
    /\ reqs # << >>
    /\ reqs[Len(reqs)] = Request("read", "CURRENT_TEMP", << >>, "push", 0, 0)
    /\ \A i \in 1..(Len(reqs) - 1) : reqs[i].who # "push"

\* the stateChange events among the events of one step
Broadcasts(es) == SelectSeq(es, LAMBDA e : e.ev = "stateChange")

\* C26 as stated: a step that changes a field of the state also broadcasts,
\* and the last snapshot it broadcasts is the state it leaves behind.
C26_EveryChangeIsBroadcast ==
    [][ state' # state =>
            /\ Broadcasts(emitted') # << >>
            /\ Broadcasts(emitted')[Len(Broadcasts(emitted'))].st = state'
      ]_vars

\* the read of characteristic uuid was answered in full in the step that
\* led to the current values of op
AnsweredInFull(o, uuid) ==
    o.name = "readDone" /\ o.uuid = uuid /\ o.got = "data"

NoErrorEvent(es) == \A i \in 1..Len(es) : es[i].ev # "error"

\* C27: liquidState is always one of 1, 2, 4, 5, 6; a liquid-state read that
\* returns any other byte leaves liquidState (and the rest of the state) as
\* it was, broadcasts nothing and raises no error.
C27_LiquidStateStaysKnown ==
    /\ [](state.liquidState \in LiquidStateValues)
    /\ [][ (/\ AnsweredInFull(op', "LIQUID_STATE")
            /\ device.liquid[1] \notin LiquidStateValues) =>
               /\ state' = state
               /\ emitted' = << >>
               /\ op'.err = "none" /\ op'.settled = 0 ]_vars

\* the mug reported the byte 3 for its liquid state and the manager kept
\* the value it had
C27_Witness ==
    /\ AnsweredInFull(op, "LIQUID_STATE")
    /\ device.liquid = << 3 >>
    /\ state.liquidState = 5
    /\ emitted = << >>

\* C28 as stated: temperatureUnit is always Celsius (0) or Fahrenheit (1);
\* a unit read that returns any other byte leaves temperatureUnit as it was.
C28_UnitStaysKnown ==
    /\ [](state.temperatureUnit \in {Celsius, Fahrenheit})
    /\ [][ (/\ AnsweredInFull(op', "TEMP_UNIT")
            /\ device.unit[1] \notin {Celsius, Fahrenheit}) =>
               state'.temperatureUnit = state.temperatureUnit ]_vars

\* C29: a read of a name that is not in the handle table completes at once,
\* with nothing handed to the adapter and no error, and its reader changes
\* nothing; a read that failed or returned a payload shorter than the
\* field's layout leaves the state as it was and broadcasts nothing.
C29_AbsentOrUnusableReadChangesNothing ==
    [][ /\ (/\ op'.name = "pushEvent" /\ op'.x \in ReadingEvents
            /\ FieldOfEvent(op'.x) \notin characteristics) =>
               /\ state' = state /\ emitted' = << >>
               /\ reqs' = reqs /\ op'.err = "none"
        /\ (op'.name = "readDone" /\ op'.got \in {"error", "short"}) =>
               /\ state' = state
               /\ Broadcasts(emitted') = << >>
               /\ NoErrorEvent(emitted')
               /\ op'.err = "none"
        /\ (/\ op'.name = "writeDone"
            /\ FieldOf(calls[op'.id].fn) \notin characteristics) =>
               /\ state' = state
               /\ Broadcasts(emitted') = << >>
               /\ reqs' = Tail(reqs) ]_vars

\* a battery read came back one byte short and nothing changed
C29_Witness ==
    /\ op.name = "readDone" /\ op.uuid = "BATTERY" /\ op.got = "short"
    /\ state.batteryLevel = 80
    /\ emitted = << >>

\* C30 as stated: whenever the manager is not connected the handle table is
\* empty, also when a discovery result arrives after the teardown.
C30_NoHandlesWhileDisconnected ==
    ~isConnected => characteristics = {}

PollRead(uuid, who) == Request("read", uuid, << >>, who, 0, 0)

\* the parts of the manager a poll does not touch
SameButReads ==
    /\ state' = state /\ characteristics' = characteristics
    /\ isConnected' = isConnected /\ pollInterval' = pollInterval
    /\ timers' = timers /\ peripheral' = peripheral /\ att' = att
    /\ cwr' = cwr /\ calls' = calls /\ device' = device
    /\ emitted' = << >>

\* C31: a poll tick that fires while the manager is connected reads the
\* current temperature; when that read is over, whatever it returned, the
\* liquid state is read, and nothing else is read; each read is handed to
\* the adapter when its name is in the handle table. A poll tick that fires
\* while the manager is not connected reads nothing and changes nothing.
C31_PollReadsTemperatureThenLiquid ==
    [][ /\ (op'.name = "pollTick" /\ ~isConnected) =>
               reqs' = reqs /\ SameButReads
        /\ (op'.name = "pollTick" /\ isConnected) =>
               /\ SameButReads
               /\ reqs' = IF "CURRENT_TEMP" \in characteristics
                          THEN Append(reqs, PollRead("CURRENT_TEMP", "poll1"))
                          ELSE IF "LIQUID_STATE" \in characteristics
                          THEN Append(reqs, PollRead("LIQUID_STATE", "poll2"))
                          ELSE reqs
        /\ (op'.name = "readDone" /\ op'.who = "poll1") =>
               /\ reqs' = IF "LIQUID_STATE" \in characteristics
                          THEN Append(Tail(reqs),
                                      PollRead("LIQUID_STATE", "poll2"))
                          ELSE Tail(reqs)
               /\ [state' EXCEPT !.currentTemp = 0]
                     = [state EXCEPT !.currentTemp = 0]
        /\ (op'.name = "readDone" /\ op'.who = "poll2") =>
               /\ reqs' = Tail(reqs)
               /\ [state' EXCEPT !.liquidState = 0]
                     = [state EXCEPT !.liquidState = 0] ]_vars

\* a poll timer ticked while the manager was not connected, with handles in
\* the table, and nothing was read
C31_Witness ==
    /\ op.name = "pollTick"
    /\ ~isConnected
    /\ "CURRENT_TEMP" \in characteristics
    /\ reqs = << >>

\* name holds the letters e, m, b, e, r in a row, in either case
HasEmber(name) ==
    LET either == << {"e", "E"}, {"m", "M"}, {"b", "B"}, {"e", "E"},
                     {"r", "R"} >>
    IN  \E i \in 0..(Len(name) - 5) : \A j \in 1..5 : name[i + j] \in either[j]

\* C32: an advertisement whose name holds "ember" in any case makes the
\* manager emit mugFound and ask the adapter to stop the scan, and nothing
\* else yet; any other name, or none, changes nothing and emits nothing; the
\* handler goes on only when the scan has stopped, and connecting starts only
\* from there.
C32_EmberNamesOnly ==
    [][ /\ (op'.name = "discover" /\ HasEmber(op'.arg)) =>
               /\ emitted' = << [ev |-> "mugFound", name |-> op'.arg],
                                [ev |-> "scanning", on |-> FALSE] >>
               /\ disc'.pc = "stopping" /\ disc'.p.name = op'.arg
               /\ cwr' = cwr /\ att' = att /\ peripheral' = peripheral
               /\ state' = state
        /\ (op'.name = "discover" /\ ~HasEmber(op'.arg)) =>
               /\ emitted' = << >>
               /\ << nobleState, scanActive, scanCall, peripheral,
                     characteristics, isConnected, pollInterval, timers,
                     state, disc, cwr, att, reqs, linkUp, discHandlers,
                     discCall, repair, device, calls >>'
                  = << nobleState, scanActive, scanCall, peripheral,
                       characteristics, isConnected, pollInterval, timers,
                       state, disc, cwr, att, reqs, linkUp, discHandlers,
                       discCall, repair, device, calls >>
        /\ (disc.pc = "stopping" /\ disc'.pc # "stopping") =>
               /\ op'.name = "scanStopped" /\ ~scanActive'
               /\ disc'.pc = "settling" /\ cwr' = cwr /\ att' = att
        /\ (op'.name = "connectWithRetry") =>
               disc.pc = "settling" /\ ~scanActive ]_vars

\* the advertisement EMBER was taken for a mug
C32_Witness ==
    /\ op.name = "discover"
    /\ op.arg = << "E", "M", "B", "E", "R" >>
    /\ disc.pc = "stopping"

\* the last event of es is a stateChange whose snapshot has value in field
CarriedBy(es, field, value) ==
    /\ Len(es) > 0
    /\ es[Len(es)].ev = "stateChange"
    /\ es[Len(es)].st[field] = value

\* the value the real manager holds for a temperature, in 0.001 degrees
Thousandths(hundredths) == 10 * hundredths

\* C33: the mock and the real manager (against a mug that applies every
\* write) hold the same values after the same successful setter call:
\* targetTemp is the request clamped to [50, 63], the unit and the color are
\* the ones requested, and the call's step ends with a stateChange carrying
\* that value.
C33_MockHonoursSetterContract ==
    /\ \A c \in CallIds :
          (op.settled = c /\ calls[c].result = "ok" /\ device.applies) =>
              CASE calls[c].fn = "setTargetTemp" ->
                     /\ Thousandths(state.targetTemp) = clampTemp(calls[c].temp)
                     /\ CarriedBy(emitted, "targetTemp", state.targetTemp)
                [] calls[c].fn = "setTemperatureUnit" ->
                     /\ state.temperatureUnit = calls[c].unit
                     /\ CarriedBy(emitted, "temperatureUnit", calls[c].unit)
                [] calls[c].fn = "setLedColor" ->
                     /\ state.color = calls[c].color
                     /\ CarriedBy(emitted, "color", calls[c].color)
                [] OTHER -> TRUE
    /\ op.name = "mock.setTargetTemp" =>
          /\ mock.state.targetTemp = clampTemp(op.x)
          /\ CarriedBy(emitted, "targetTemp", clampTemp(op.x))
    /\ op.name = "mock.setTemperatureUnit" =>
          /\ mock.state.temperatureUnit = op.x
          /\ CarriedBy(emitted, "temperatureUnit", op.x)
    /\ op.name = "mock.setLedColor" =>
          /\ mock.state.color = op.arg[1]
          /\ CarriedBy(emitted, "color", op.arg[1])

\* the mock is disconnected again and again, or the mug stays empty: the
\* simulation is not left to run with liquid in the mug
SimulationDisturbed ==
    \/ []<>(~mock.isConnected)
    \/ <>[](mock.state.liquidState = EmptyLiquid)

AtTarget ==
    /\ mock.state.currentTemp = mock.state.targetTemp
    /\ mock.state.liquidState = StableTemperature

NearTarget ==
    /\ Abs(mock.state.targetTemp - mock.state.currentTemp) <= StableBand
    /\ mock.state.liquidState = StableTemperature

BatteryInRange == mock.state.batteryLevel \in 0..FullBattery

\* C34 as stated: while the mock stays connected with liquid in the mug and
\* an unchanged target, for any positive change rate currentTemp eventually
\* equals targetTemp and the liquid state becomes and stays
\* StableTemperature; the battery level stays within [0, 100].
C34_Original ==
    /\ SimulationDisturbed \/ <>[]AtTarget
    /\ []BatteryInRange

\* C34, amended: while the mock stays connected with liquid in the mug and
\* an unchanged target, and every update moves the temperature by at least
\* 0.01 degrees, currentTemp eventually stays within 0.1 degrees of
\* targetTemp and the liquid state becomes and stays StableTemperature; the
\* battery level stays within [0, 100].
C34_SimulationSettlesNearTarget ==
    /\ mock.config.tempChangeRate >= 10 =>
          (SimulationDisturbed \/ <>[]NearTarget)
    /\ []BatteryInRange

\* a tick found the mug within 0.1 degrees of a target it does not equal,
\* and called it stable
C34_Witness ==
    /\ op.name = "mock.tick"
    /\ mock.isConnected
    /\ mock.config.tempChangeRate >= 10
    /\ mock.state.liquidState = StableTemperature
    /\ mock.state.currentTemp # mock.state.targetTemp
    /\ mock.state.batteryLevel = 0

\* attempt k was rejected by the connection timeout: its promise is settled
\* while the callback of peripheral.connect is still owed
TimedOut(k) == att[k].promise = "rejected" /\ att[k].link = "pending"

\* C35: the link callback of an attempt the connection timeout has rejected
\* has no effect: it does not mark the manager connected, registers no
\* disconnect handler, does not start the setup pipeline, and so leads to no
\* poll timer and no connected event, whether a retry is in progress or the
\* run has ended.
C35_LateLinkCallbackHasNoEffect ==
    [][ \A k \in Attempts :
          (TimedOut(k) /\ op'.name = "linkCallback" /\ op'.id = k) =>
              /\ isConnected' = isConnected
              /\ state' = state
              /\ discHandlers' = discHandlers
              /\ att'[k].pc \notin SetupPcs
              /\ timers' = timers /\ pollInterval' = pollInterval
              /\ emitted' = << >> ]_vars

\* C36: with timers that fire, every connectWithRetry run that has started
\* finishes, connected or with its terminal error, also when the adapter
\* never invokes a callback the setup pipeline waits for.
C36_RunFinishes ==
    [](cwr.pc \in {"connecting", "backoff"} =>
          <>(cwr.pc \in {"succeeded", "failed"}))

\* the events of kind ev among es
EventsOf(es, ev) == SelectSeq(es, LAMBDA e : e.ev = ev)

\* C37: the end of a session is announced once: the step in which the link
\* of a connected manager ends emits exactly one disconnected event and one
\* stateChange, whether a disconnect() call is pending or not and however
\* many connect attempts registered a disconnect handler on the device; no
\* step emits disconnected twice.
C37_OneDisconnectedPerLoss ==
    [][ /\ Len(EventsOf(emitted', "disconnected")) <= 1
        /\ (op'.name = "disconnectEvent" /\ isConnected) =>
               /\ Len(EventsOf(emitted', "disconnected")) = 1
               /\ Len(EventsOf(emitted', "stateChange")) = 1 ]_vars

\* C38: when setTargetTemp calls overlap against a mug that applies every
\* write in order and answers every re-read, no call fails with
\* WriteNotApplied: a call whose own write was applied succeeds.
C38_OverlappingCallsBothSucceed ==
    \A c \in CallSlots :
        (op.settled = c /\ calls[c].fn = "setTargetTemp") =>
            calls[c].result = "ok"

\* C39: a setter called while its characteristic is not in the handle table
\* (the manager is not connected), or whose write the adapter reports as
\* failed, rejects; no re-read is handed to the adapter, no field of the
\* state changes and no stateChange is emitted.
C39_FailedWriteRejectsWithoutReread ==
    [][ \A c \in CallIds :
          /\ (op'.name \in SetterNames /\ op'.id = c
                /\ FieldOf(op'.name) \notin characteristics) =>
                 /\ calls'[c].pc = "done" /\ calls'[c].result = "rejected"
                 /\ reqs' = reqs
                 /\ state' = state
                 /\ emitted' = << >>
          /\ (op'.name = "writeDone" /\ op'.who = "set" /\ op'.id = c
                /\ op'.x = 0) =>
                 /\ calls'[c].pc = "done" /\ calls'[c].result = "rejected"
                 /\ reqs' = Tail(reqs)
                 /\ state' = state
                 /\ emitted' = << >> ]_vars

\* a setter was called after the session had ended, and was rejected
C39_Witness ==
    /\ op.name = "setTargetTemp"
    /\ characteristics = {}
    /\ calls[1].result = "rejected"
    /\ emitted = << >>

\* the adapter reported a failed write to a setter, which was rejected
C39_WitnessWrite ==
    /\ op.name = "writeDone" /\ op.who = "set" /\ op.x = 0
    /\ calls[1].result = "rejected"

\* C40: a connect attempt that completes after forgetAndRepair() cleared the
\* device never dereferences the cleared reference: no link callback throws,
\* and an attempt that finds no device is rejected and handled by
\* connectWithRetry.
C40_NoCompletionOnClearedDevice ==
    /\ \A k \in Attempts : att[k].pc # "threw"
    /\ (op.name = "linkCallback" /\ op.x = 1) => peripheral.id # "null"

====
